---- MODULE Spec2Model ----
(***************************************************************************)
(* PortfolioBackend (main.py): the session store kept in Redis under       *)
(* chat:session:<id>, and the /stream orchestrator stream_openai_response  *)
(* that drives the two-phase tool-calling exchange and emits the event     *)
(* stream.                                                                 *)
(*                                                                         *)
(* Text is a sequence of symbols: the characters of the text the gateway   *)
(* and the client supply, and whole literals for the pieces the code puts  *)
(* in with f-strings.  A Redis call is one atomic step and may raise; the  *)
(* Python code between two Redis or gateway calls is local to its request. *)
(* json.dumps/json.loads of a session blob (ints, strings, lists of dicts) *)
(* give back the same value, so the store maps a key to the session record *)
(* itself.                                                                 *)
(*                                                                         *)
(* SpecStore: callers of create_session, save_message and delete_session   *)
(* interleaved at the grain of the Redis calls.                            *)
(* Spec: one /stream request from admission to its terminal event.         *)
(* SpecExchanges: sequential /stream requests on a session just created.   *)
(* SpecExpiry: the calls of one client in sequence, with Redis time        *)
(* passing and keys running out.                                           *)
(* SpecTools: one POST /tools/test.                                        *)
(***************************************************************************)
EXTENDS Integers, Sequences, FiniteSets, TLC

(***************************************************************************)
(* Bounds of the model                                                     *)
(***************************************************************************)
\* direct callers of the session functions in SpecStore
NCallers == 2
\* calls a caller may start in SpecStore
MaxCalls == 2
\* the clock advances at most this far beyond Epoch
MaxTicks == 1
\* tool calls in one response of the first completion
MaxToolCalls == 2
\* chunks in one streaming completion
MaxFragments == 2
\* keys in the arguments mapping of a POST /tools/test
MaxArgs == 2
\* tool calls and chunks of one exchange in SpecExchanges
MaxExchangeToolCalls == 1
MaxExchangeFragments == 1
\* save_message calls made in SpecTurns
MaxTurns == 3
\* characters of an enumerated expression of SpecCalculate
MaxExprLen == 3
\* POST /stream requests received in SpecLimited
MaxArrivals == 2

(***************************************************************************)
(* Program constants                                                       *)
(***************************************************************************)
\* the exchanges of the round trip: create, two exchanges, fetch
Exchanges == 2
\* save_message keeps the last 20 messages
MaxMessages == 20
\* setex(..., 86400, ...)
SessionTTL == 86400

\* model time at which the model starts; preloaded turns are older
Epoch == MaxMessages + 1

SessionIds == {"s1", "s2"}
Callers == 1..NCallers
\* the client addresses get_remote_address tells apart
Addresses == {"a1", "a2"}
\* @limiter.limit("10/hour")
RateLimit == 10

\* frame 0 belongs to the /stream request, the others to direct callers
Orch == 0
Frames == {Orch} \cup Callers

UserText == <<"q">>
AsstText == <<"a", "b">>
\* (role, content) pairs handed to save_message by direct callers
Turns == {[role |-> "user", content |-> UserText],
          [role |-> "assistant", content |-> AsstText]}

\* history lengths the session s1 may start with (all reachable by earlier
\* exchanges: a user turn and an assistant turn per exchange)
PreloadLens == {0, 19, 20}
\* the same for the session the /stream request of Spec may name
RequestPreloadLens == {0, 19}

VARIABLES
    store,      \* Redis: key chat:session:<id> -> session blob
    ttl,        \* Redis: seconds the key has left to live
    issued,     \* ids uuid4 has handed out so far
    clock,      \* time.time() in ms
    frame,      \* activation of save_message / delete_session per caller
    ncalls,     \* calls started by direct callers
    \* the /stream request in flight (stream_llm_response, stream_openai_response)
    pc,                 \* position in the handler
    status,             \* HTTP status of the response, 0 before it is decided
    prompt,
    session_id,         \* "none" for None
    messages,           \* the message list handed to the gateway
    assistant_message,  \* response.choices[0].message of the first completion
    tool_results,
    idx,                \* loop position: tool call, or character of the answer
    streamed,           \* fragments pulled from the streaming completion so far
    trace,              \* what the request did, in order: events, calls, writes
    gw_messages,        \* the message lists of the gateway calls, in order
    \* POST /tools/test
    tool_request,       \* the JSON body: tool_name and the keys of arguments
    tool_response,      \* HTTP status (0 before the answer) and the result field
    \* the limiter of POST /stream and GET /rate-limit-info
    hits,               \* the limiter's storage: address -> requests counted in its window
    admitted,           \* address -> requests of its window the handler was entered for
    arrivals,           \* POST /stream requests received so far
    rate_info,          \* the last answer of GET /rate-limit-info
    \* a call of calculate
    calc                \* the argument, the text handed to eval, the string returned

storeVars == <<store, ttl, issued, clock, frame, ncalls>>
toolVars == <<tool_request, tool_response>>
limitVars == <<hits, admitted, arrivals, rate_info>>
otherVars == <<toolVars, limitVars, calc>>
reqVars == <<pc, status, prompt, session_id, messages, assistant_message,
             tool_results, idx, streamed, trace, gw_messages, otherVars>>
vars == <<storeVars, reqVars>>

(***************************************************************************)
(* Session store: pure parts                                               *)
(***************************************************************************)
Message(role, content, ts) == [role |-> role, content |-> content, timestamp |-> ts]

NewSession(id, t1, t2) ==
    [session_id |-> id, created_at |-> t1, last_activity |-> t2, messages |-> <<>>]

\* messages[:20]: the truncation keeps the wrong end
LastNKeepsOldest(s, n) == IF Len(s) > n THEN SubSeq(s, 1, n) ELSE s

\* messages[-20:]
LastN(s, n) == IF Len(s) > n THEN SubSeq(s, Len(s) - n + 1, Len(s)) ELSE s

\* save_message without the truncation to the last 20 messages
SaveBuildNoTruncation(session_data, role, content, ts, la) ==
    [session_data EXCEPT
        !.messages = Append(session_data.messages, Message(role, content, ts)),
        !.last_activity = la]

\* the new message is put in front of the history
SaveBuildPrepends(session_data, role, content, ts, la) ==
    LET appended == <<Message(role, content, ts)>> \o session_data.messages
    IN  [session_data EXCEPT
            !.messages = IF Len(appended) > MaxMessages
                         THEN LastN(appended, MaxMessages) ELSE appended,
            !.last_activity = la]

\* the second reading of the clock stamps the message, the first one
\* last_activity
SaveBuildSwapsReadings(session_data, role, content, ts, la) ==
    LET appended == Append(session_data.messages, Message(role, content, la))
    IN  [session_data EXCEPT
            !.messages = IF Len(appended) > MaxMessages
                         THEN LastN(appended, MaxMessages) ELSE appended,
            !.last_activity = ts]

\* save_message between get_session and setex: append, touch, truncate
SaveBuild(session_data, role, content, ts, la) ==
    LET appended == Append(session_data.messages, Message(role, content, ts))
    IN  [session_data EXCEPT
            !.messages = IF Len(appended) > MaxMessages
                         THEN LastN(appended, MaxMessages) ELSE appended,
            !.last_activity = la]

\* the write leaves the written key alone in the store
SetexAlone(st, key, value) == [k \in {key} |-> value]

\* redis_client.setex(key, 86400, value)
Setex(st, key, value) ==
    [k \in DOMAIN st \cup {key} |-> IF k = key THEN value ELSE st[k]]

\* the time-to-live is set when the key is new and kept when it exists
SetexTtlKeeps(tt, key, seconds) ==
    [k \in DOMAIN tt \cup {key} |-> IF k \in DOMAIN tt THEN tt[k] ELSE seconds]

SetexTtl(tt, key, seconds) ==
    [k \in DOMAIN tt \cup {key} |-> IF k = key THEN seconds ELSE tt[k]]

\* a delete that leaves the key in place
DeleteNothing(st, key) == st

\* redis_client.delete(key)
Delete(st, key) == [k \in DOMAIN st \ {key} |-> st[k]]

\* a history of n turns left by earlier exchanges
Preloaded(n) ==
    [i \in 1..n |-> IF i % 2 = 1 THEN Message("user", UserText, i)
                                 ELSE Message("assistant", AsstText, i)]

NoData == NewSession("none", 0, 0)
IdleFrame == [pc |-> "idle", op |-> "none", session_id |-> "none", role |-> "none",
              content |-> <<>>, session_data |-> NoData, seen |-> NoData,
              status |-> 0]

\* time.time() may have advanced by d since the last reading
Advances == {d \in 0..1 : clock + d <= Epoch + MaxTicks}

(***************************************************************************)
(* save_message(session_id, role, content), one Redis call per step        *)
(***************************************************************************)
\* a missing key is answered with a new empty session, which is then written
SMGetCreatesAbsent(c) ==
    /\ frame[c].pc = "get"
    /\ \E ok \in BOOLEAN :
        IF ~ ok
        THEN frame' = [frame EXCEPT ![c].pc = "done", ![c].status = 500]
        ELSE LET found == IF frame[c].session_id \in DOMAIN store
                          THEN store[frame[c].session_id]
                          ELSE NewSession(frame[c].session_id, clock, clock)
             IN  frame' = [frame EXCEPT ![c].pc = "build", ![c].session_data = found,
                                        ![c].seen = found]
    /\ UNCHANGED <<store, ttl, issued, clock, ncalls>>

\* get_session: redis get; an exception (status 500 in the frame) or a missing
\* key gives None, and save_message returns
SMGet(c) ==
    /\ frame[c].pc = "get"
    /\ \E ok \in BOOLEAN :
        IF ~ ok
        THEN frame' = [frame EXCEPT ![c].pc = "done", ![c].status = 500]
        ELSE IF frame[c].session_id \in DOMAIN store
        THEN frame' = [frame EXCEPT ![c].pc = "build",
                                    ![c].session_data = store[frame[c].session_id],
                                    ![c].seen = store[frame[c].session_id]]
        ELSE frame' = [frame EXCEPT ![c].pc = "done"]
    /\ UNCHANGED <<store, ttl, issued, clock, ncalls>>

\* the message is appended to the session as the store holds it now, not to
\* the blob that was read
SMBuildFromStore(c) ==
    /\ frame[c].pc = "build"
    /\ \E d1 \in Advances :
        \E d2 \in {d \in 0..1 : clock + d1 + d <= Epoch + MaxTicks} :
            /\ frame' = [frame EXCEPT
                    ![c].pc = "setex",
                    ![c].session_data =
                        SaveBuild(IF frame[c].session_id \in DOMAIN store
                                  THEN store[frame[c].session_id] ELSE frame[c].session_data,
                                  frame[c].role, frame[c].content, clock + d1, clock + d1 + d2)]
            /\ clock' = clock + d1 + d2
    /\ UNCHANGED <<store, ttl, issued, ncalls>>

\* the message is stamped, appended, last_activity refreshed, list truncated
SMBuild(c) ==
    /\ frame[c].pc = "build"
    /\ \E d1 \in Advances :
        \E d2 \in {d \in 0..1 : clock + d1 + d <= Epoch + MaxTicks} :
            /\ frame' = [frame EXCEPT
                    ![c].pc = "setex",
                    ![c].session_data = SaveBuild(frame[c].session_data, frame[c].role,
                                            frame[c].content, clock + d1, clock + d1 + d2)]
            /\ clock' = clock + d1 + d2
    /\ UNCHANGED <<store, ttl, issued, ncalls>>

\* redis setex (status 200 in the frame); an exception is caught and printed
\* (status 500)
SMSetex(c) ==
    /\ frame[c].pc = "setex"
    /\ \E ok \in BOOLEAN :
        IF ok
        THEN /\ store' = Setex(store, frame[c].session_id, frame[c].session_data)
             /\ ttl' = SetexTtl(ttl, frame[c].session_id, SessionTTL)
             /\ frame' = [frame EXCEPT ![c].pc = "done", ![c].status = 200]
        ELSE /\ UNCHANGED <<store, ttl>>
             /\ frame' = [frame EXCEPT ![c].pc = "done", ![c].status = 500]
    /\ UNCHANGED <<issued, clock, ncalls>>

(***************************************************************************)
(* Direct callers (SpecStore)                                              *)
(***************************************************************************)
Returned(c) == frame[c].pc \in {"idle", "done"}

CallSaveMessage(c) ==
    /\ Returned(c)
    /\ ncalls < MaxCalls
    /\ \E sid \in SessionIds, t \in Turns :
        frame' = [frame EXCEPT ![c] = [IdleFrame EXCEPT !.pc = "get", !.op = "save",
                        !.session_id = sid, !.role = t.role, !.content = t.content]]
    /\ ncalls' = ncalls + 1
    /\ UNCHANGED <<store, ttl, issued, clock>>

\* create_session: uuid4, two clock readings, one setex
CreateSession ==
    /\ ncalls < MaxCalls
    /\ \E id \in SessionIds \ issued :
        \E d1 \in Advances :
          \E d2 \in {d \in 0..1 : clock + d1 + d <= Epoch + MaxTicks} :
            /\ store' = Setex(store, id, NewSession(id, clock + d1, clock + d1 + d2))
            /\ ttl' = SetexTtl(ttl, id, SessionTTL)
            /\ issued' = issued \cup {id}
            /\ clock' = clock + d1 + d2
    /\ ncalls' = ncalls + 1
    /\ UNCHANGED frame

\* DELETE /session/{id}: get_session, then 404 or redis delete
CallDeleteSession(c) ==
    /\ Returned(c)
    /\ ncalls < MaxCalls
    /\ \E sid \in SessionIds :
        frame' = [frame EXCEPT ![c] = [IdleFrame EXCEPT !.pc = "del_get", !.op = "delete",
                                                        !.session_id = sid]]
    /\ ncalls' = ncalls + 1
    /\ UNCHANGED <<store, ttl, issued, clock>>

DelGet(c) ==
    /\ frame[c].pc = "del_get"
    /\ \E ok \in BOOLEAN :
        IF ok /\ frame[c].session_id \in DOMAIN store
        THEN frame' = [frame EXCEPT ![c].pc = "del_delete",
                                    ![c].seen = store[frame[c].session_id]]
        ELSE frame' = [frame EXCEPT ![c].pc = "done", ![c].status = 404]
    /\ UNCHANGED <<store, ttl, issued, clock, ncalls>>

\* Redis time passes, up to the second before or the second at which some key
\* runs out: every time-to-live runs down by as much, and the keys that have
\* none left are gone.  (clock only orders the readings of time.time(); it
\* does not measure this time.)
Elapse ==
    /\ \E k \in DOMAIN ttl : \E d \in {ttl[k] - 1, ttl[k]} :
        /\ d > 0
        /\ LET alive == {j \in DOMAIN ttl : ttl[j] > d}
           IN  /\ ttl' = [j \in alive |-> ttl[j] - d]
               /\ store' = [j \in alive |-> store[j]]
    /\ UNCHANGED <<issued, clock, frame, ncalls>>

\* GET /session/{id}: get_session (a Redis error is caught there and gives
\* None), then 404 or the session with status 200
GetSessionHistory(c) ==
    /\ Returned(c)
    /\ ncalls < MaxCalls
    /\ \E sid \in SessionIds, ok \in BOOLEAN :
        frame' = [frame EXCEPT ![c] =
            IF ok /\ sid \in DOMAIN store
            THEN [IdleFrame EXCEPT !.pc = "done", !.op = "fetch", !.session_id = sid,
                                   !.seen = store[sid], !.status = 200]
            ELSE [IdleFrame EXCEPT !.pc = "done", !.op = "fetch", !.session_id = sid,
                                   !.status = 404]]
    /\ ncalls' = ncalls + 1
    /\ UNCHANGED <<store, ttl, issued, clock>>

DelDelete(c) ==
    /\ frame[c].pc = "del_delete"
    /\ \E ok \in BOOLEAN :
        IF ok
        THEN /\ store' = Delete(store, frame[c].session_id)
             /\ ttl' = Delete(ttl, frame[c].session_id)
             /\ frame' = [frame EXCEPT ![c].pc = "done", ![c].status = 200]
        ELSE /\ UNCHANGED <<store, ttl>>
             /\ frame' = [frame EXCEPT ![c].pc = "done", ![c].status = 500]
    /\ UNCHANGED <<issued, clock, ncalls>>


(***************************************************************************)
(* Tool registry and gateway values                                        *)
(***************************************************************************)
\* Optional[str]: None, or Some(text)
None == <<>>
Some(t) == <<t>>
\* x or ""
OrEmpty(o) == IF o = None THEN <<>> ELSE o[1]
\* truth value of an Optional[str] in an if
Truthy(o) == o # None /\ o[1] # <<>>

RECURSIVE Concat(_)
\* "".join(parts)
Concat(parts) == IF parts = <<>> THEN <<>> ELSE Head(parts) \o Concat(Tail(parts))

\* keys of tool_functions in execute_tool
ToolNames == {"get_current_time", "get_weather", "calculate", "web_search",
              "get_session_info", "create_reminder", "record_user_details",
              "record_unknown_question"}

\* parameters of the registered Python functions: all, and those without default
ToolParams(name) ==
    CASE name = "get_current_time" -> [all |-> {"timezone"}, required |-> {}]
      [] name = "get_weather" -> [all |-> {"location"}, required |-> {"location"}]
      [] name = "calculate" -> [all |-> {"expression"}, required |-> {"expression"}]
      [] name = "web_search" -> [all |-> {"query"}, required |-> {"query"}]
      [] name = "get_session_info" -> [all |-> {"session_id"}, required |-> {"session_id"}]
      [] name = "create_reminder" -> [all |-> {"title", "datetime_str", "description"},
                                      required |-> {"title", "datetime_str"}]
      [] name = "record_user_details" -> [all |-> {"email", "name", "notes"},
                                          required |-> {"email"}]
      [] name = "record_unknown_question" -> [all |-> {"question"}, required |-> {"question"}]

\* parameters the schemas of TOOLS advertise to the model: the properties,
\* and those listed under "required"
ToolSchema(name) ==
    CASE name = "get_current_time" -> [properties |-> {"timezone"}, required |-> {}]
      [] name = "get_weather" -> [properties |-> {"location"}, required |-> {"location"}]
      [] name = "calculate" -> [properties |-> {"expression"}, required |-> {"expression"}]
      [] name = "web_search" -> [properties |-> {"query"}, required |-> {"query"}]
      [] name = "get_session_info" -> [properties |-> {"session_id"}, required |-> {"session_id"}]
      [] name = "create_reminder" -> [properties |-> {"title", "description", "datetime"},
                                      required |-> {"title", "datetime"}]
      [] name = "record_user_details" -> [properties |-> {"email", "name", "notes"},
                                          required |-> {"email"}]
      [] name = "record_unknown_question" -> [properties |-> {"question"}, required |-> {"question"}]

(***************************************************************************)
(* calculate                                                               *)
(***************************************************************************)
\* an expression is a sequence of characters
Digits == {"0", "1", "2", "3", "4", "5", "6", "7", "8", "9"}
Letters == {"a", "b", "c", "d", "e", "f", "g", "h", "i", "j", "k", "l", "m", "n", "o",
            "p", "q", "r", "s", "t", "u", "v", "w", "x", "y", "z"}
\* c.isalnum()
IsAlnum(c) == c \in Digits \cup Letters

\* c.isalnum() or c in '+-*/.() '
Kept(c) == IsAlnum(c) \/ c \in {"+", "-", "*", "/", ".", "(", ")", " "}

\* ''.join(c for c in expression if ...)
Reduced(e) == SelectSeq(e, Kept)

\* values of the evaluator: an int, the empty tuple, or an exception raised
\* while evaluating
IntV(n) == [k |-> "int", n |-> n]
TupleV == [k |-> "tuple", n |-> 0]
RaiseV == [k |-> "raise", n |-> 0]

\* x + y, x * y, x ** y, +x of Python on these values
Add(x, y) ==
    IF x.k = "int" /\ y.k = "int" THEN IntV(x.n + y.n)
    ELSE IF x.k = "tuple" /\ y.k = "tuple" THEN TupleV
    ELSE RaiseV
Mul(x, y) ==
    IF x.k = "int" /\ y.k = "int" THEN IntV(x.n * y.n)
    ELSE IF {x.k, y.k} = {"int", "tuple"} THEN TupleV
    ELSE RaiseV
Pow(x, y) == IF x.k = "int" /\ y.k = "int" THEN IntV(x.n ^ y.n) ELSE RaiseV
Pos(x) == IF x.k = "int" THEN x ELSE RaiseV

\* the tokens of Python that the expressions drawn can spell: numbers, names,
\* + * ** ( ); anything else is a token no expression may hold
Tk(t, n) == [t |-> t, n |-> n]
DigitValue(c) == CHOOSE n \in 0..9 : ToString(n) = c

RECURSIVE RunEnd(_, _)
\* the last position of the run of letters and digits that starts at i
RunEnd(s, i) == IF i < Len(s) /\ IsAlnum(s[i + 1]) THEN RunEnd(s, i + 1) ELSE i

RECURSIVE Decimal(_)
Decimal(r) ==
    IF r = <<>> THEN 0
    ELSE 10 * Decimal(SubSeq(r, 1, Len(r) - 1)) + DigitValue(r[Len(r)])

\* a run that starts with a digit is a decimal literal if it is all digits
\* and has no leading zero
RunToken(run) ==
    IF run[1] \in Letters THEN Tk("name", 0)
    ELSE IF /\ \A j \in 1..Len(run) : run[j] \in Digits
            /\ (Len(run) = 1 \/ run[1] # "0" \/ \A j \in 1..Len(run) : run[j] = "0")
         THEN Tk("number", Decimal(run))
         ELSE Tk("bad", 0)

RECURSIVE Tokens(_, _)
Tokens(s, i) ==
    IF i > Len(s) THEN <<>>
    ELSE IF s[i] = " " THEN Tokens(s, i + 1)
    ELSE IF IsAlnum(s[i])
         THEN <<RunToken(SubSeq(s, i, RunEnd(s, i)))>> \o Tokens(s, RunEnd(s, i) + 1)
    ELSE IF s[i] = "*" /\ i < Len(s) /\ s[i + 1] = "*"
         THEN <<Tk("**", 0)>> \o Tokens(s, i + 2)
    ELSE IF s[i] \in {"+", "*", "(", ")"} THEN <<Tk(s[i], 0)>> \o Tokens(s, i + 1)
    ELSE <<Tk("bad", 0)>> \o Tokens(s, i + 1)

\* the grammar of Python expressions over these tokens; a parse gives the
\* position after it and the value
At(toks, i) == IF i <= Len(toks) THEN toks[i].t ELSE "end"
Fail == [ok |-> FALSE, i |-> 0, v |-> RaiseV]
Done(i, v) == [ok |-> TRUE, i |-> i, v |-> v]

\* the operand of + is a single signed operand, not a product
SumOperandIsFactor == "factor"

\* the operands of + are products: * binds tighter than +
SumOperand == "term"

RECURSIVE Parse(_, _, _, _)
\* the parse of one grammar rule from position i; v is the value on the left
\* for the rules that continue an expression
\*   atom:     NUMBER | NAME | () | ( sum ); no name the expressions drawn can
\*             spell is in allowed_names or a keyword, so a name raises
\*   calls:    ( ), ( sum ), ( * sum ), ( ** sum ) after a primary; what is
\*             called is an int, a tuple or an unknown name, so a call raises
\*   power:    atom calls [ ** factor ]
\*   factor:   + factor | power
\*   term:     factor { * factor }, from left to right
\*   sum:      term { + term }, from left to right
Parse(rule, toks, i, v) ==
    CASE rule = "atom" ->
            (CASE At(toks, i) = "number" -> Done(i + 1, IntV(toks[i].n))
               [] At(toks, i) = "name" -> Done(i + 1, RaiseV)
               [] At(toks, i) = "(" ->
                    IF At(toks, i + 1) = ")" THEN Done(i + 2, TupleV)
                    ELSE LET r == Parse("sum", toks, i + 1, v)
                         IN  IF r.ok /\ At(toks, r.i) = ")" THEN Done(r.i + 1, r.v) ELSE Fail
               [] OTHER -> Fail)
      [] rule = "calls" ->
            IF At(toks, i) # "(" THEN Done(i, v)
            ELSE IF At(toks, i + 1) = ")" THEN Parse("calls", toks, i + 2, RaiseV)
            ELSE LET r == Parse("sum", toks,
                                IF At(toks, i + 1) \in {"*", "**"} THEN i + 2 ELSE i + 1, v)
                 IN  IF r.ok /\ At(toks, r.i) = ")"
                     THEN Parse("calls", toks, r.i + 1, RaiseV) ELSE Fail
      [] rule = "power" ->
            LET a == Parse("atom", toks, i, v)
            IN  IF ~ a.ok THEN Fail
                ELSE LET p == Parse("calls", toks, a.i, a.v)
                     IN  IF ~ p.ok THEN Fail
                         ELSE IF At(toks, p.i) = "**"
                              THEN LET f == Parse("factor", toks, p.i + 1, v)
                                   IN  IF f.ok THEN Done(f.i, Pow(p.v, f.v)) ELSE Fail
                              ELSE p
      [] rule = "factor" ->
            IF At(toks, i) = "+"
            THEN LET f == Parse("factor", toks, i + 1, v)
                 IN  IF f.ok THEN Done(f.i, Pos(f.v)) ELSE Fail
            ELSE Parse("power", toks, i, v)
      [] rule = "term" ->
            LET f == Parse("factor", toks, i, v)
            IN  IF f.ok THEN Parse("term rest", toks, f.i, f.v) ELSE Fail
      [] rule = "term rest" ->
            IF At(toks, i) = "*"
            THEN LET f == Parse("factor", toks, i + 1, v)
                 IN  IF f.ok THEN Parse("term rest", toks, f.i, Mul(v, f.v)) ELSE Fail
            ELSE Done(i, v)
      [] rule = "sum" ->
            LET t == Parse("term", toks, i, v)
            IN  IF t.ok THEN Parse("sum rest", toks, t.i, t.v) ELSE Fail
      [] rule = "sum rest" ->
            IF At(toks, i) = "+"
            THEN LET t == Parse(SumOperand, toks, i + 1, v)
                 IN  IF t.ok THEN Parse("sum rest", toks, t.i, Add(v, t.v)) ELSE Fail
            ELSE Done(i, v)

\* eval(expression, {"__builtins__": {}}, allowed_names): the value, or an
\* exception: the text is no expression, or evaluating it raises
eval(s) ==
    LET toks == Tokens(s, 1)
        r == Parse("sum", toks, 1, RaiseV)
    IN  IF r.ok /\ r.i = Len(toks) + 1 /\ r.v.k # "raise"
        THEN [ok |-> TRUE, v |-> r.v]
        ELSE [ok |-> FALSE, v |-> RaiseV]

\* str(result)
Str(v) == IF v.k = "int" THEN ToString(v.n) ELSE "()"

\* calculate(expression): the reduced expression is evaluated, whatever the
\* input held; str(e) of the exception is left open
calculate(expression) ==
    LET r == eval(Reduced(expression))
    IN  IF r.ok
        THEN <<"Result: ">> \o Reduced(expression) \o <<" = ", Str(r.v)>>
        ELSE <<"Error calculating ">> \o Reduced(expression) \o <<": ", "exception">>

\* the characters the enumerated expressions are made of
Alphabet == {"2", "+", "*", "(", ")", " ", "a", "_"}
RECURSIVE Strings(_)
Strings(n) ==
    IF n = 0 THEN {<<>>}
    ELSE Strings(n - 1) \cup
         {Append(t, c) : t \in {u \in Strings(n - 1) : Len(u) = n - 1}, c \in Alphabet}
\* "2 + 2 * 3" and "__import__('os')"
Precedence == <<"2", " ", "+", " ", "2", " ", "*", " ", "3">>
ImportOs == <<"_", "_", "i", "m", "p", "o", "r", "t", "_", "_", "(", "'", "o", "s", "'", ")">>
Expressions == Strings(MaxExprLen) \cup {Precedence, ImportOs}

\* argument strings the gateway may put in a tool call
GoodArgs == "{\"expression\": \"2 + 2 * 3\"}"
NoArgs == "{}"
BadArgs == "{\"expression\": "
ArgStrings == {GoodArgs, NoArgs, BadArgs}

\* a datetime in the ISO format the schema asks for
IsoDatetime == <<"2030-01-01T00:00:00">>
\* datetime.datetime.fromisoformat accepts the text
FromIsoFormatOk(text) == text = IsoDatetime

\* the value a client or the model gives to an argument
ArgValue(k) ==
    CASE k = "expression" -> Precedence
      [] k \in {"datetime", "datetime_str"} -> IsoDatetime
      [] OTHER -> <<"v">>
\* an arguments mapping, by its keys
Mapping(keys) == [k \in keys |-> ArgValue(k)]

\* json.loads of an argument string: the mapping and its keys, or a decode
\* error
JsonLoads(str) ==
    CASE str = GoodArgs -> [ok |-> TRUE, keys |-> {"expression"}, value |-> Mapping({"expression"})]
      [] str = NoArgs -> [ok |-> TRUE, keys |-> {}, value |-> Mapping({})]
      [] OTHER -> [ok |-> FALSE, keys |-> {}, value |-> Mapping({})]

\* tool_functions[name](**arguments) raises TypeError on a missing or unexpected keyword
CallRaises(name, keys) ==
    ~ (ToolParams(name).required \subseteq keys /\ keys \subseteq ToolParams(name).all)

\* create_reminder(title, datetime_str, description=""), called with the
\* keywords it accepts
create_reminder(arguments) ==
    IF FromIsoFormatOk(arguments["datetime_str"])
    THEN <<"Reminder created: ", arguments["title"], " for ", arguments["datetime_str"]>>
    ELSE <<"Error creating reminder: ", "ValueError">>

\* what the registered function returns (every body catches its own exceptions)
ToolOutput(name, arguments) ==
    CASE name = "calculate" -> calculate(arguments["expression"])
      [] name = "create_reminder" -> create_reminder(arguments)
      [] OTHER -> <<"Result of ", name>>

\* the registry lookup made inside the try: an unknown name ends in the except
execute_tool_lookup_in_try(name, arguments) ==
    IF name \in ToolNames /\ ~ CallRaises(name, DOMAIN arguments)
    THEN ToolOutput(name, arguments)
    ELSE <<"Error executing ", name, ": ", "KeyError">>

\* execute_tool(tool_name, arguments)
execute_tool(name, arguments) ==
    IF name \in ToolNames
    THEN IF CallRaises(name, DOMAIN arguments)
         THEN <<"Error executing ", name, ": ", "TypeError">>
         ELSE ToolOutput(name, arguments)
    ELSE <<"Unknown tool: ", name>>

\* (name, arguments) of the tool calls the first completion may request
ToolCallKinds == {[name |-> "calculate", arguments |-> GoodArgs],
                  [name |-> "nonexistent_tool", arguments |-> NoArgs],
                  [name |-> "get_weather", arguments |-> NoArgs],
                  [name |-> "calculate", arguments |-> BadArgs]}

\* tool_calls of a response: position i carries the call id i
ToolCallLists ==
    UNION {[1..n -> ToolCallKinds] : n \in 0..MaxToolCalls}

\* message.content of the first completion: any of these with a direct
\* answer, null or a text next to tool calls
FirstContents == {None, Some(<<>>), Some(AsstText)}
FirstResponses ==
    {r \in [content : FirstContents, tool_calls : ToolCallLists] :
        r.tool_calls # <<>> => r.content # Some(<<>>)}

\* delta.content of a streamed chunk: null, the empty string or a text
Fragments == {None, Some(<<>>), Some(<<"x", "y">>)}

UpstreamError == <<"UpstreamError">>
SYSTEM_PROMPT == <<"You are an AI assistant.">>

Prompts == {<<>>, <<" ">>, UserText, <<" ", "q">>}

\* prompt.strip(): whitespace removed at both ends
RECURSIVE LStrip(_)
LStrip(t) == IF t # <<>> /\ Head(t) = " " THEN LStrip(Tail(t)) ELSE t
RECURSIVE RStrip(_)
RStrip(t) == IF t # <<>> /\ t[Len(t)] = " " THEN RStrip(SubSeq(t, 1, Len(t) - 1)) ELSE t
\* the prompt is tested as it came, unstripped
StripNothing(t) == t
Strip(t) == RStrip(LStrip(t))

(***************************************************************************)
(* What a request leaves behind: events, gateway and tool calls, writes    *)
(***************************************************************************)
Entry(kind, type, tool, text) == [kind |-> kind, type |-> type, tool |-> tool, text |-> text]
\* a chunk sent with the type of a tool result
ChunkEventAsToolResult(content) == Entry("event", "tool_result", "", content)
ChunkEvent(content) == Entry("event", "chunk", "", content)
ToolResultEvent(name, result) == Entry("event", "tool_result", name, result)
EndEvent == Entry("event", "end", "", <<>>)
ErrorEvent(e) == Entry("event", "error", "", e)
GatewayCall(type) == Entry("call", type, "", <<>>)
\* the gateway call or the stream iteration raised
GatewayRaise == Entry("raise", "gateway", "", UpstreamError)
\* print(f"Error retrieving session ...") / print(f"Error saving message ...")
PrintRetrieving == Entry("print", "Error retrieving session", "", <<>>)
PrintSaving == Entry("print", "Error saving message", "", <<>>)
RECURSIVE ArgText(_, _)
\* the arguments of a call as text: each key followed by its value
ArgText(arguments, keys) ==
    IF keys = {} THEN <<>>
    ELSE LET k == CHOOSE x \in keys : TRUE
         IN  <<k>> \o arguments[k] \o ArgText(arguments, keys \ {k})
ToolCall(name, arguments) ==
    Entry("call", "execute_tool", name, ArgText(arguments, DOMAIN arguments))
StoreWrite(role, content) == Entry("write", "setex", role, content)
\* StreamingResponse(stream_openai_response(prompt, session_id)): the generator
\* is started
StartEntry(p, sid) == Entry("start", "stream_openai_response", sid, p)

IsEvent(e) == e.kind = "event"
Events == SelectSeq(trace, IsEvent)

\* a message-list entry; timestamp -1 and tool_call_id 0 when the key is absent
ListMessage(role, content) ==
    [role |-> role, content |-> content, timestamp |-> -1, tool_call_id |-> 0,
     tool_calls |-> <<>>]
\* every turn of the history is handed over as a user turn
HistoryMessageAsUser(m) == ListMessage("user", m.content)
\* a stored turn, as get_chat_history returns it
HistoryMessage(m) == [ListMessage(m.role, m.content) EXCEPT !.timestamp = m.timestamp]
\* the tool message does not say which tool call it answers
ToolMessageNoId(id, content) == ListMessage("tool", content)
ToolMessage(id, content) == [ListMessage("tool", content) EXCEPT !.tool_call_id = id]
AssistantMessage(am) ==
    [ListMessage("assistant", OrEmpty(am.content)) EXCEPT !.tool_calls = am.tool_calls]

NoResponse == [content |-> None, tool_calls |-> <<>>]

\* no POST /tools/test has been made, and none has been answered
NoToolRequest == [tool_name |-> None, arguments |-> {}]
NoToolResponse == [status |-> 0, result |-> <<>>]

\* calculate has not been called
NoCalc == [expression |-> <<>>, evaluated |-> None, result |-> <<>>]

\* no GET /rate-limit-info has been answered
NoRateInfo == [ip |-> "", current_requests |-> 0, limit |-> "", error |-> FALSE]

InitRequest ==
    /\ pc = "idle"
    /\ status = 0
    /\ prompt = <<>>
    /\ session_id = "none"
    /\ messages = <<>>
    /\ assistant_message = NoResponse
    /\ tool_results = <<>>
    /\ idx = 0
    /\ streamed = <<>>
    /\ trace = <<>>
    /\ gw_messages = <<>>
    /\ tool_request = NoToolRequest
    /\ tool_response = NoToolResponse
    /\ arrivals = 0
    /\ rate_info = NoRateInfo
    /\ calc = NoCalc

(***************************************************************************)
(* POST /stream                                                            *)
(***************************************************************************)
\* every turn is saved with the role user
EnterSaveAsUser(role, content) ==
    [frame EXCEPT ![Orch] = [IdleFrame EXCEPT !.pc = "get", !.op = "save",
            !.session_id = session_id, !.role = "user", !.content = content]]

\* save_message(session_id, role, content) is entered
EnterSave(role, content) ==
    [frame EXCEPT ![Orch] = [IdleFrame EXCEPT !.pc = "get", !.op = "save",
            !.session_id = session_id, !.role = role, !.content = content]]

\* the body of stream_llm_response: 400 on a blank prompt, else the stream
\* is opened
stream_llm_response ==
    /\ \E p \in Prompts, sid \in SessionIds \cup {"none"} :
        /\ prompt' = p
        /\ session_id' = sid
        /\ IF Strip(p) = <<>>
           THEN status' = 400 /\ pc' = "done" /\ UNCHANGED trace
           ELSE status' = 200 /\ pc' = "load" /\ trace' = Append(trace, StartEntry(p, sid))
    /\ UNCHANGED <<storeVars, messages, assistant_message, tool_results, idx, streamed,
                   gw_messages>>

\* a POST /stream the limiter has let through
StreamRequest ==
    /\ pc = "idle"
    /\ stream_llm_response
    /\ UNCHANGED otherVars

\* the session functions are called whether or not an id was sent
HasSessionAlways(sid) == TRUE

\* if session_id:
HasSession(sid) == sid # "none"

\* the user turn is not saved ahead of the first completion
SavesUserTurnNever(sid) == FALSE

\* "Save user message to session" before the first completion: if session_id:
SavesUserTurn(sid) == HasSession(sid)

\* get_chat_history (a Redis failure gives []), the message list, and the
\* call of save_message for the user turn
LoadHistory ==
    /\ pc = "load"
    /\ \E ok \in BOOLEAN :
        LET history == IF HasSession(session_id) /\ ok /\ session_id \in DOMAIN store
                       THEN store[session_id].messages ELSE <<>>
        IN  /\ messages' = <<ListMessage("system", SYSTEM_PROMPT)>>
                            \o [i \in 1..Len(history) |-> HistoryMessage(history[i])]
                            \o <<ListMessage("user", prompt)>>
            /\ trace' = IF HasSession(session_id) /\ ~ ok
                        THEN Append(trace, PrintRetrieving) ELSE trace
    /\ IF SavesUserTurn(session_id)
       THEN frame' = EnterSave("user", prompt) /\ pc' = "save_user"
       ELSE UNCHANGED frame /\ pc' = "first"
    /\ UNCHANGED <<store, ttl, issued, clock, ncalls, status, prompt, session_id,
                   assistant_message, tool_results, idx, streamed, gw_messages>>
    /\ UNCHANGED otherVars

\* a failed read of the session ends the response with an error signal
RequestSMGetPropagates ==
    /\ SMGet(Orch)
    /\ IF frame'[Orch].status = 500
       THEN trace' = Append(trace, ErrorEvent(<<"ConnectionError">>)) /\ pc' = "done"
       ELSE UNCHANGED <<trace, pc>>
    /\ UNCHANGED <<status, prompt, session_id, messages, assistant_message,
                   tool_results, idx, streamed, gw_messages>>
    /\ UNCHANGED otherVars

\* the steps of save_message made by the request
RequestSMGet ==
    /\ SMGet(Orch)
    /\ trace' = IF frame'[Orch].status = 500 THEN Append(trace, PrintRetrieving) ELSE trace
    /\ UNCHANGED <<pc, status, prompt, session_id, messages, assistant_message,
                   tool_results, idx, streamed, gw_messages>>
    /\ UNCHANGED otherVars

RequestSMBuild ==
    /\ SMBuild(Orch)
    /\ UNCHANGED reqVars

RequestSMSetex ==
    /\ SMSetex(Orch)
    /\ trace' = IF frame'[Orch].status = 200
                THEN Append(trace, StoreWrite(frame[Orch].role, frame[Orch].content))
                ELSE Append(trace, PrintSaving)
    /\ UNCHANGED <<pc, status, prompt, session_id, messages, assistant_message,
                   tool_results, idx, streamed, gw_messages>>
    /\ UNCHANGED otherVars

\* an end signal sent after the error signal
RaisedThenEnd(tr, e) == tr \o <<Entry("raise", "gateway", "", e), ErrorEvent(e), EndEvent>>

\* the except branch of stream_openai_response: the error signal is sent
Raised(tr, e) == tr \o <<GatewayRaise, ErrorEvent(e)>>

\* the first completion is tried again after a failure
AfterRaiseRetry == "first"

\* the generator returns after the except branch
AfterRaise == "done"

\* the tool loop and the streaming completion follow every first completion
PathAfterFirstAlwaysTools(r) == "tools"

\* if assistant_message.tool_calls:
PathAfterFirst(r) == IF r.tool_calls # <<>> THEN "tools" ELSE "direct"

\* the request goes on only after a save_message that wrote the session
SaveMessageReturnedAfterWrite == frame[Orch].pc = "done" /\ frame[Orch].status = 200

\* the save_message called by the request has returned: after its write, on
\* a missing session, or after its except branch printed the failure
SaveMessageReturned == frame[Orch].pc = "done"

\* client.chat.completions.create(..., tools=TOOLS, tool_choice="auto")
FirstCompletion ==
    /\ \/ pc = "first"
       \/ pc = "save_user" /\ SaveMessageReturned
    /\ gw_messages' = Append(gw_messages, messages)
    /\ \/ /\ trace' = Raised(Append(trace, GatewayCall("complete")), UpstreamError)
          /\ pc' = AfterRaise
          /\ UNCHANGED <<messages, assistant_message, idx>>
       \/ \E r \in FirstResponses :
          /\ assistant_message' = r
          /\ messages' = Append(messages, AssistantMessage(r))
          /\ trace' = Append(trace, GatewayCall("complete"))
          /\ idx' = 1
          /\ pc' = PathAfterFirst(r)
    /\ UNCHANGED <<storeVars, status, prompt, session_id, tool_results, streamed>>
    /\ UNCHANGED otherVars

\* error_result of the except branch inside the tool loop
error_result(function_name) ==
    <<"Error executing tool ", function_name, ": ", "JSONDecodeError">>

\* the except branch forgets the tool message
ExceptToolCallDropsResult(results, id, function_name) == results

\* the except branch inside the tool loop: the error text becomes a tool message
ExceptToolCall(results, id, function_name) ==
    Append(results, ToolMessage(id, error_result(function_name)))

\* one turn of the loop over assistant_message.tool_calls
ExecToolCall ==
    /\ pc = "tools"
    /\ idx <= Len(assistant_message.tool_calls)
    /\ LET tool_call == assistant_message.tool_calls[idx]
           function_name == tool_call.name
           arguments == JsonLoads(tool_call.arguments)
           result == execute_tool(function_name, arguments.value)
       IN  IF arguments.ok
           THEN /\ tool_results' = Append(tool_results, ToolMessage(idx, result))
                /\ trace' = trace \o <<ToolCall(function_name, arguments.value),
                                       ToolResultEvent(function_name, result)>>
           ELSE /\ tool_results' = ExceptToolCall(tool_results, idx, function_name)
                /\ UNCHANGED trace
    /\ idx' = idx + 1
    /\ UNCHANGED <<storeVars, pc, status, prompt, session_id, messages, assistant_message,
                   streamed, gw_messages>>
    /\ UNCHANGED otherVars

\* messages.extend(tool_results); client.chat.completions.create(..., stream=True)
StreamCreate ==
    /\ pc = "tools"
    /\ idx > Len(assistant_message.tool_calls)
    /\ messages' = messages \o tool_results
    /\ gw_messages' = Append(gw_messages, messages')
    /\ \/ /\ trace' = Raised(Append(trace, GatewayCall("stream")), UpstreamError)
          /\ pc' = AfterRaise
       \/ /\ trace' = Append(trace, GatewayCall("stream"))
          /\ pc' = "streaming"
    /\ UNCHANGED <<storeVars, status, prompt, session_id, assistant_message, tool_results,
                   idx, streamed>>
    /\ UNCHANGED otherVars

\* the text saved on the tool-call path is the streamed fragments alone
complete_response_streamed ==
    Concat([i \in 1..Len(streamed) |-> OrEmpty(streamed[i])])

\* the text saved on the tool-call path
complete_response ==
    OrEmpty(assistant_message.content)
    \o (IF tool_results # <<>>
        THEN <<"\n\n[Tool Results:]\n">>
             \o Concat([i \in 1..Len(tool_results) |->
                            <<"- ">> \o tool_results[i].content \o <<"\n">>])
        ELSE <<>>)
    \o OrEmpty(assistant_message.content)

\* an empty fragment is passed over like a null one
YieldsFragmentIfTruthy(f) == Truthy(f)

\* if chunk.choices[0].delta.content is not None:
YieldsFragment(f) == f # None

\* for chunk in final_response: the next chunk, the end of the stream, or a failure
StreamNext ==
    /\ pc = "streaming"
    /\ \/ \E f \in Fragments :
            /\ Len(streamed) < MaxFragments
            /\ streamed' = Append(streamed, f)
            /\ trace' = IF YieldsFragment(f) THEN Append(trace, ChunkEvent(f[1])) ELSE trace
            /\ UNCHANGED <<pc, frame>>
       \/ /\ trace' = Raised(trace, UpstreamError)
          /\ pc' = AfterRaise
          /\ UNCHANGED <<streamed, frame>>
       \/ /\ IF HasSession(session_id)
             THEN frame' = EnterSave("assistant", complete_response) /\ pc' = "save_asst"
             ELSE UNCHANGED frame /\ pc' = "end"
          /\ UNCHANGED <<streamed, trace>>
    /\ UNCHANGED <<store, ttl, issued, clock, ncalls, status, prompt, session_id, messages,
                   assistant_message, tool_results, idx, gw_messages>>
    /\ UNCHANGED otherVars

\* the first character is lost
AnswerCharsDropFirst(am) == IF OrEmpty(am.content) = <<>> THEN <<>> ELSE Tail(OrEmpty(am.content))

\* the characters streamed on the direct path: assistant_message.content or ""
AnswerChars(am) == OrEmpty(am.content)

\* for char in assistant_message.content or "": one chunk event per character
DirectChunk ==
    /\ pc = "direct"
    /\ idx <= Len(AnswerChars(assistant_message))
    /\ trace' = Append(trace, ChunkEvent(<<AnswerChars(assistant_message)[idx]>>))
    /\ idx' = idx + 1
    /\ UNCHANGED <<storeVars, pc, status, prompt, session_id, messages, assistant_message,
                   tool_results, streamed, gw_messages>>
    /\ UNCHANGED otherVars

\* the direct answer is never saved
SavesDirectAnswerNever(sid, am) == FALSE

\* if session_id and assistant_message.content:
SavesDirectAnswer(sid, am) == HasSession(sid) /\ Truthy(am.content)

\* the direct answer has been streamed: save_message(...) when there is a
\* session and a text
DirectSave ==
    /\ pc = "direct"
    /\ idx > Len(AnswerChars(assistant_message))
    /\ IF SavesDirectAnswer(session_id, assistant_message)
       THEN frame' = EnterSave("assistant", assistant_message.content[1]) /\ pc' = "save_asst"
       ELSE UNCHANGED frame /\ pc' = "end"
    /\ UNCHANGED <<store, ttl, issued, clock, ncalls, status, prompt, session_id, messages,
                   assistant_message, tool_results, idx, streamed, trace, gw_messages>>
    /\ UNCHANGED otherVars

\* the end signal
EmitEnd ==
    /\ \/ pc = "end"
       \/ pc = "save_asst" /\ SaveMessageReturned
    /\ trace' = Append(trace, EndEvent)
    /\ pc' = "done"
    /\ UNCHANGED <<storeVars, status, prompt, session_id, messages, assistant_message,
                   tool_results, idx, streamed, gw_messages>>
    /\ UNCHANGED otherVars

IsStart(e) == e.kind = "start"
\* whether the chunks of an exchange carried any text
AnswerEntry(text) == Entry("answer", IF text = <<>> THEN "empty" ELSE "nonempty", "", <<>>)

\* what is remembered of an exchange once its response has ended: its start
\* (prompt and session), whether an answer text was received, and the terminal
\* event.  Exchanges summed up before stay as they are.
Summary(tr) ==
    IF \A i \in 1..Len(tr) : tr[i].kind # "call"
    THEN tr
    ELSE LET last == CHOOSE i \in 1..Len(tr) :
                        /\ tr[i].kind = "start"
                        /\ \A j \in (i + 1)..Len(tr) : tr[j].kind # "start"
             raw == SubSeq(tr, last, Len(tr))
             chunks == SelectSeq(raw, LAMBDA e : e.kind = "event" /\ e.type = "chunk")
         IN  SubSeq(tr, 1, last - 1)
             \o <<raw[1], AnswerEntry(Concat([i \in 1..Len(chunks) |-> chunks[i].text])),
                  raw[Len(raw)]>>

\* the client sends its next POST /stream once the response to the previous
\* one has ended; the locals of the finished generator are gone
NextExchange ==
    /\ pc = "done"
    /\ Len(SelectSeq(trace, IsStart)) < Exchanges
    /\ pc' = "idle"
    /\ status' = 0
    /\ prompt' = <<>>
    /\ session_id' = "none"
    /\ messages' = <<>>
    /\ assistant_message' = NoResponse
    /\ tool_results' = <<>>
    /\ idx' = 0
    /\ streamed' = <<>>
    /\ gw_messages' = <<>>
    /\ trace' = Summary(trace)
    /\ frame' = [frame EXCEPT ![Orch] = IdleFrame]
    /\ UNCHANGED <<store, ttl, issued, clock, ncalls, otherVars>>

\* POST /session
PostSession ==
    /\ CreateSession
    /\ UNCHANGED reqVars

(***************************************************************************)
(* The limiter of POST /stream, and GET /rate-limit-info                   *)
(***************************************************************************)
\* Limiter(key_func=get_remote_address) is given no storage_uri: its counters
\* are kept in the memory of the process, one per address, and a counter
\* lasts for the hour that its first request opened.

\* the limit is passed up to and including one request more
HitAllowsOneMore(h, a) == h[a] <= RateLimit + 1

\* the decorator counts the request, then compares the count with the limit
HitAllowed(h, a) == h[a] <= RateLimit

\* requests counted and let through in the windows the server starts in
InitLimiter(counts) ==
    \E h \in [Addresses -> counts] :
        /\ hits = h
        /\ admitted = [a \in Addresses |-> IF h[a] <= RateLimit THEN h[a] ELSE RateLimit]

\* POST /stream from address a: the decorator counts the request and either
\* raises RateLimitExceeded, answered 429 by the exception handler, or enters
\* the handler; nothing is awaited in between
LimitedStreamRequest(a) ==
    /\ pc = "idle"
    /\ arrivals < MaxArrivals
    /\ arrivals' = arrivals + 1
    /\ hits' = [hits EXCEPT ![a] = @ + 1]
    /\ IF HitAllowed(hits', a)
       THEN /\ admitted' = [admitted EXCEPT ![a] = @ + 1]
            /\ stream_llm_response
       ELSE /\ status' = 429
            /\ pc' = "done"
            /\ UNCHANGED <<admitted, storeVars, prompt, session_id, messages,
                           assistant_message, tool_results, idx, streamed, trace,
                           gw_messages>>
    /\ UNCHANGED <<toolVars, rate_info, calc>>

\* the hour of the counter of address a is over: the counter is dropped
WindowEnds(a) ==
    /\ hits[a] > 0
    /\ hits' = [hits EXCEPT ![a] = 0]
    /\ admitted' = [admitted EXCEPT ![a] = 0]
    /\ UNCHANGED <<storeVars, pc, status, prompt, session_id, messages, assistant_message,
                   tool_results, idx, streamed, trace, gw_messages, toolVars, arrivals,
                   rate_info, calc>>

\* the Redis key rate_limit_info reads
SlowapiKey(a) == "slowapi:" \o a

\* int(current_requests) if current_requests else 0
CurrentRequests(a) == IF SlowapiKey(a) \in DOMAIN store THEN store[SlowapiKey(a)] ELSE 0

\* rate_limit_info: the count read from Redis, or the error of a failed read
RateLimitInfo(a) ==
    /\ \E ok \in BOOLEAN :
        rate_info' = IF ok
                     THEN [ip |-> a, current_requests |-> CurrentRequests(a),
                           limit |-> "10/hour", error |-> FALSE]
                     ELSE [NoRateInfo EXCEPT !.ip = a, !.error = TRUE]
    /\ UNCHANGED <<storeVars, pc, status, prompt, session_id, messages, assistant_message,
                   tool_results, idx, streamed, trace, gw_messages, toolVars, hits,
                   admitted, arrivals, calc>>

\* the response has ended and the client, or another one, may send the next
\* POST /stream; the locals of the finished generator are gone
NextArrival ==
    /\ pc = "done"
    /\ pc' = "idle"
    /\ status' = 0
    /\ prompt' = <<>>
    /\ session_id' = "none"
    /\ messages' = <<>>
    /\ assistant_message' = NoResponse
    /\ tool_results' = <<>>
    /\ idx' = 0
    /\ streamed' = <<>>
    /\ gw_messages' = <<>>
    /\ trace' = <<>>
    /\ frame' = [frame EXCEPT ![Orch] = IdleFrame]
    /\ UNCHANGED <<store, ttl, issued, clock, ncalls, otherVars>>

(***************************************************************************)
(* POST /tools/test                                                        *)
(***************************************************************************)
\* keyword names a client may put in arguments: the parameters of the
\* registered functions, and "datetime", the name the schema of
\* create_reminder advertises
ArgNames == UNION {ToolParams(n).all : n \in ToolNames} \cup {"datetime"}
\* the arguments mapping of the body, by its keys
ArgMappings == {a \in SUBSET ArgNames : Cardinality(a) <= MaxArgs}
\* tool_request.get("tool_name"): absent, empty, registered or not
ToolTestNames == {None, Some("")} \cup {Some(n) : n \in ToolNames \cup {"nonexistent_tool"}}

\* if not tool_name
NoToolName(o) == o = None \/ o[1] = ""

\* test_tool: the HTTPException(400) raised inside the try is caught by its
\* except Exception and answered as 500; else execute_tool and 200
TestTool ==
    /\ tool_response = NoToolResponse
    /\ \E tn \in ToolTestNames, a \in ArgMappings :
        /\ tool_request' = [tool_name |-> tn, arguments |-> a]
        /\ tool_response' =
                IF NoToolName(tn)
                THEN [status |-> 500, result |-> <<"Failed to test tool: ", "400">>]
                ELSE [status |-> 200, result |-> execute_tool(tn[1], Mapping(a))]
    /\ UNCHANGED <<storeVars, pc, status, prompt, session_id, messages, assistant_message,
                   tool_results, idx, streamed, trace, gw_messages, limitVars, calc>>

\* a call calculate(expression): the reduced text goes to eval whatever the
\* argument held, and the string built from its outcome is returned
Calculate ==
    /\ calc = NoCalc
    /\ \E e \in Expressions :
        calc' = [expression |-> e, evaluated |-> Some(Reduced(e)), result |-> calculate(e)]
    /\ UNCHANGED <<storeVars, pc, status, prompt, session_id, messages, assistant_message,
                   tool_results, idx, streamed, trace, gw_messages, toolVars, limitVars>>

\* a server that has been running: s1 holds the history of earlier exchanges,
\* s2 was never created
InitSessions(lens) ==
    /\ \E n \in lens :
        store = [x \in {"s1"} |->
                    [NewSession("s1", 0, n) EXCEPT !.messages = Preloaded(n)]]
    /\ ttl = [x \in {"s1"} |-> SessionTTL]
    /\ issued = {"s1"}
    /\ frame = [c \in Frames |-> IdleFrame]
    /\ ncalls = 0

InitStore ==
    /\ InitSessions(PreloadLens)
    /\ clock = Epoch
    /\ InitRequest
    /\ InitLimiter({0})

NextStore ==
    \/ \E c \in Callers : CallSaveMessage(c) /\ UNCHANGED reqVars
    \/ \E c \in Callers : SMGet(c) /\ UNCHANGED reqVars
    \/ \E c \in Callers : SMBuild(c) /\ UNCHANGED reqVars
    \/ \E c \in Callers : SMSetex(c) /\ UNCHANGED reqVars
    \/ PostSession
    \/ \E c \in Callers : CallDeleteSession(c) /\ UNCHANGED reqVars
    \/ \E c \in Callers : DelGet(c) /\ UNCHANGED reqVars
    \/ \E c \in Callers : DelDelete(c) /\ UNCHANGED reqVars
    \/ \E c \in Callers : GetSessionHistory(c) /\ UNCHANGED reqVars

SpecStore == InitStore /\ [][NextStore]_vars

\* the text of the n-th turn saved: the requests carry different prompts and
\* get different answers
TurnText(n) == <<"t", ToString(n)>>

\* a /stream request on the session s1 calls save_message for its user turn
\* or for its assistant turn
CallSaveTurn(c) ==
    /\ Returned(c)
    /\ ncalls < MaxTurns
    /\ frame' = [frame EXCEPT ![c] = [IdleFrame EXCEPT !.pc = "get", !.op = "save",
                        !.session_id = "s1",
                        !.role = IF ncalls % 2 = 0 THEN "user" ELSE "assistant",
                        !.content = TurnText(ncalls + 1)]]
    /\ ncalls' = ncalls + 1
    /\ UNCHANGED <<store, ttl, issued, clock>>

InitTurns ==
    /\ InitSessions(RequestPreloadLens)
    /\ clock = Epoch
    /\ InitRequest
    /\ InitLimiter({0})

\* two /stream requests on the session at a time
Requests == {1, 2}

\* the save_message calls of concurrent /stream requests on one session,
\* interleaved at the Redis calls
NextTurns ==
    \/ \E c \in Requests : CallSaveTurn(c) /\ UNCHANGED reqVars
    \/ \E c \in Requests : SMGet(c) /\ UNCHANGED reqVars
    \/ \E c \in Requests : SMBuild(c) /\ UNCHANGED reqVars
    \/ \E c \in Requests : SMSetex(c) /\ UNCHANGED reqVars

SpecTurns == InitTurns /\ [][NextTurns]_vars

\* the client of SpecExpiry: one caller, whose calls follow one another
Client == CHOOSE c \in Callers : TRUE

\* the calls of SpecStore made one after the other, with Redis time passing
\* at any moment, also in the middle of a call
NextExpiry ==
    \/ CallSaveMessage(Client) /\ UNCHANGED reqVars
    \/ SMGet(Client) /\ UNCHANGED reqVars
    \/ SMBuild(Client) /\ UNCHANGED reqVars
    \/ SMSetex(Client) /\ UNCHANGED reqVars
    \/ Returned(Client) /\ PostSession
    \/ CallDeleteSession(Client) /\ UNCHANGED reqVars
    \/ DelGet(Client) /\ UNCHANGED reqVars
    \/ DelDelete(Client) /\ UNCHANGED reqVars
    \/ GetSessionHistory(Client) /\ UNCHANGED reqVars
    \/ Elapse /\ UNCHANGED reqVars

SpecExpiry == InitStore /\ [][NextExpiry]_vars

InitTools ==
    /\ InitSessions({0})
    /\ clock = Epoch
    /\ InitRequest
    /\ InitLimiter({0})

NextTools == TestTool

SpecTools == InitTools /\ [][NextTools]_vars

NextCalculate == Calculate

SpecCalculate == InitTools /\ [][NextCalculate]_vars

\* a session just created, then sequential exchanges with Redis answering
InitExchanges ==
    /\ InitSessions({0})
    /\ clock = Epoch + MaxTicks
    /\ InitRequest
    /\ InitLimiter({0})

NextExchanges ==
    \/ StreamRequest
    \/ LoadHistory /\ trace' = trace
    \/ RequestSMGet /\ frame'[Orch].status # 500
    \/ RequestSMBuild
    \/ RequestSMSetex /\ frame'[Orch].status = 200
    \/ FirstCompletion /\ Len(assistant_message'.tool_calls) <= MaxExchangeToolCalls
    \/ ExecToolCall
    \/ StreamCreate
    \/ StreamNext /\ Len(streamed') <= MaxExchangeFragments
    \/ DirectChunk
    \/ DirectSave
    \/ EmitEnd
    \/ NextExchange

SpecExchanges == InitExchanges /\ [][NextExchanges]_vars

\* a server in the middle of the hour of its clients: each address has one
\* request left or none; the requests follow one another, Redis answering
\* and the model asking for no tool
InitLimited ==
    /\ InitSessions({0})
    /\ clock = Epoch + MaxTicks
    /\ InitRequest
    /\ InitLimiter({RateLimit - 1, RateLimit})

NextLimited ==
    \/ \E a \in Addresses : LimitedStreamRequest(a)
    \/ \E a \in Addresses : WindowEnds(a)
    \/ \E a \in Addresses : RateLimitInfo(a)
    \/ LoadHistory /\ trace' = trace
    \/ RequestSMGet /\ frame'[Orch].status # 500
    \/ RequestSMBuild
    \/ RequestSMSetex /\ frame'[Orch].status = 200
    \/ FirstCompletion /\ assistant_message'.tool_calls = <<>>
    \/ DirectChunk
    \/ DirectSave
    \/ EmitEnd
    \/ NextArrival

SpecLimited == InitLimited /\ [][NextLimited]_vars

\* the request of Spec with Redis down: every call of redis_client raises
NextOutage ==
    \/ StreamRequest
    \/ LoadHistory /\ (HasSession(session_id) => trace' # trace)
    \/ RequestSMGet /\ frame'[Orch].status = 500
    \/ FirstCompletion
    \/ ExecToolCall
    \/ StreamCreate
    \/ StreamNext
    \/ DirectChunk
    \/ DirectSave
    \/ EmitEnd

\* the readings of the clock made by the request of Spec all fall in the
\* same millisecond
Init ==
    /\ InitSessions(RequestPreloadLens)
    /\ clock = Epoch + MaxTicks
    /\ InitRequest
    /\ InitLimiter({0})

Next ==
    \/ StreamRequest
    \/ LoadHistory
    \/ RequestSMGet
    \/ RequestSMBuild
    \/ RequestSMSetex
    \/ FirstCompletion
    \/ ExecToolCall
    \/ StreamCreate
    \/ StreamNext
    \/ DirectChunk
    \/ DirectSave
    \/ EmitEnd

Spec == Init /\ [][Next]_vars

SpecOutage == Init /\ [][NextOutage]_vars

\* the tool calls of the response are calls that fail (an unknown tool, a
\* missing argument, arguments that are no JSON)
OnlyFailingToolCalls(r) ==
    \A i \in 1..Len(r.tool_calls) : r.tool_calls[i].arguments # GoodArgs

\* the steps of the generator stream_openai_response and of the calls it makes
Handler ==
    \/ LoadHistory
    \/ RequestSMGet
    \/ RequestSMBuild
    \/ RequestSMSetex
    \/ FirstCompletion /\ OnlyFailingToolCalls(assistant_message')
    \/ ExecToolCall
    \/ StreamCreate
    \/ StreamNext
    \/ DirectChunk
    \/ DirectSave
    \/ EmitEnd

\* a new session s1; the session s2 was never created
InitLive ==
    /\ InitSessions({0})
    /\ clock = Epoch + MaxTicks
    /\ InitRequest
    /\ InitLimiter({0})

\* a request with an empty prompt or a prompt without surrounding blanks
NextLive ==
    \/ StreamRequest /\ prompt' = Strip(prompt')
    \/ Handler

\* the request of Spec served by a task that is never starved: every call
\* the generator makes returns or raises, so its next step is taken
SpecLive == InitLive /\ [][NextLive]_vars /\ WF_vars(Handler)

(***************************************************************************)
(* Properties                                                              *)
(***************************************************************************)
Terminal(e) == e.kind = "event" /\ e.type \in {"end", "error"}
IsChunk(e) == e.kind = "event" /\ e.type = "chunk"
IsToolResult(e) == e.kind = "event" /\ e.type = "tool_result"
IsToolCall(e) == e.kind = "call" /\ e.type = "execute_tool"
IsGatewayCall(e) == e.kind = "call" /\ e.type \in {"complete", "stream"}
InTrace(e) == \E i \in 1..Len(trace) : trace[i] = e
LastOfTrace == trace[Len(trace)]
ChunkEvents == SelectSeq(trace, IsChunk)
\* the content fields of the chunk events, concatenated in emission order
ChunkText == Concat([i \in 1..Len(ChunkEvents) |-> ChunkEvents[i].text])
ToolResultEvents == SelectSeq(trace, IsToolResult)
ToolCallsMade == SelectSeq(trace, IsToolCall)
\* no Redis call of the request raised
NoStoreFailure == \A i \in 1..Len(trace) : trace[i].kind # "print"

\* C1: the event sequence of a /stream response holds exactly one terminal
\* event (end or error): nothing is emitted after a terminal event, a response
\* that has finished ends with one, and one in progress has none yet.
C1_OneTerminalEventLast ==
    /\ \A i \in 1..Len(trace) : Terminal(trace[i]) => i = Len(trace)
    /\ (pc = "done" /\ status = 200) => (trace # <<>> /\ Terminal(LastOfTrace))
    /\ pc # "done" => \A i \in 1..Len(trace) : ~ Terminal(trace[i])

\* a response that failed in the middle of the stream, after a chunk
C1_Witness ==
    /\ pc = "done" /\ status = 200
    /\ LastOfTrace.type = "error"
    /\ ChunkEvents # <<>>
    /\ ToolResultEvents # <<>>

\* C2: every stored session has at most 20 messages, whatever the interleaving
\* of create, save_message and delete.
C2_AtMostTwentyMessages ==
    \A s \in DOMAIN store : Len(store[s].messages) <= MaxMessages

\* two callers have both written s1, which is full and has lost an old turn
C2_Witness ==
    /\ "s1" \in DOMAIN store
    /\ Len(store["s1"].messages) = MaxMessages
    /\ store["s1"].messages[1].timestamp >= 2
    /\ \E c1, c2 \in Callers :
        /\ c1 # c2
        /\ \A c \in {c1, c2} : frame[c].op = "save" /\ frame[c].status = 200
                               /\ frame[c].session_id = "s1"

\* C3: a save_message that read 20 messages m1..m20 and writes with no other
\* write in between leaves m2..m20 followed by the new message.
C3_DropsExactlyOldest ==
    [][\A c \in Callers :
        (/\ frame[c].pc = "setex" /\ frame'[c].pc = "done" /\ frame'[c].status = 200
         /\ frame[c].session_id \in DOMAIN store
         /\ store[frame[c].session_id] = frame[c].seen
         /\ Len(frame[c].seen.messages) = MaxMessages)
        => LET old == frame[c].seen.messages
               new == store'[frame[c].session_id].messages
           IN  /\ Len(new) = MaxMessages
               /\ SubSeq(new, 1, MaxMessages - 1) = Tail(old)
               /\ new[MaxMessages].role = frame[c].role
               /\ new[MaxMessages].content = frame[c].content]_vars

\* a save on a full session has been written
C3_Witness ==
    \E c \in Callers :
        /\ frame[c].pc = "done" /\ frame[c].op = "save" /\ frame[c].status = 200
        /\ Len(frame[c].seen.messages) = MaxMessages
        /\ frame[c].session_id \in DOMAIN store
        /\ Len(store[frame[c].session_id].messages) = MaxMessages
        /\ SubSeq(store[frame[c].session_id].messages, 1, MaxMessages - 1)
               = Tail(frame[c].seen.messages)

\* C4: for a request naming an existing session (Redis answering), the write of
\* the user turn precedes the first gateway call, and when the request ends in
\* an error the history ends with that user turn.
C4_UserTurnSavedBeforeFirstCompletion ==
    (session_id \in DOMAIN store /\ NoStoreFailure) =>
        /\ \A j \in 1..Len(trace) :
            trace[j] = GatewayCall("complete") =>
                \E i \in 1..(j - 1) : trace[i] = StoreWrite("user", prompt)
        /\ (pc = "done" /\ trace # <<>> /\ LastOfTrace.type = "error") =>
                LET h == store[session_id].messages
                IN  /\ h # <<>>
                    /\ h[Len(h)].role = "user"
                    /\ h[Len(h)].content = prompt
                    /\ h[Len(h)].timestamp >= Epoch

\* the streaming completion failed after a chunk, on an existing session
C4_Witness ==
    /\ pc = "done"
    /\ session_id \in DOMAIN store /\ NoStoreFailure
    /\ trace # <<>> /\ LastOfTrace.type = "error"
    /\ ChunkEvents # <<>>
    /\ InTrace(StoreWrite("user", prompt))

\* the request went down the tool-call path and the tool loop has finished
ToolLoopDone ==
    /\ assistant_message.tool_calls # <<>>
    /\ idx > Len(assistant_message.tool_calls)

\* the first completion returned a direct answer
DirectPath ==
    /\ InTrace(GatewayCall("complete"))
    /\ ~ InTrace(GatewayRaise)
    /\ assistant_message.tool_calls = <<>>

\* C5: on the tool-call path the assistant turn that is persisted is the
\* concatenation of the fragments sent as chunk events.
C5_PersistsStreamedFragments ==
    \A i \in 1..Len(trace) :
        (assistant_message.tool_calls # <<>> /\ trace[i].kind = "write"
            /\ trace[i].tool = "assistant")
        => trace[i].text = ChunkText

\* C6: once the tool loop has finished, one tool_result event has been emitted
\* for every requested tool call, in the order of the requests.
C6_OneToolResultPerToolCall ==
    ToolLoopDone =>
        /\ Len(ToolResultEvents) = Len(assistant_message.tool_calls)
        /\ \A i \in 1..Len(ToolResultEvents) :
            ToolResultEvents[i].tool = assistant_message.tool_calls[i].name

\* C7: no tool_result event is emitted after a chunk event, and none at all
\* when the first completion requested no tool call.
C7_ToolResultsBeforeChunks ==
    /\ \A j \in 1..Len(trace) :
        IsToolResult(trace[j]) => \A i \in 1..(j - 1) : ~ IsChunk(trace[i])
    /\ assistant_message.tool_calls = <<>> => ToolResultEvents = <<>>

\* a response with two tool results followed by chunks and the end event
C7_Witness ==
    /\ pc = "done" /\ status = 200 /\ LastOfTrace = EndEvent
    /\ Len(ToolResultEvents) = 2
    /\ Len(ChunkEvents) = 2

\* C8: on the direct path the chunk contents concatenated are the answer text
\* (a prefix of it while streaming), and the finished response is those chunk
\* events followed by the end event.
C8_ChunksReconstructAnswer ==
    DirectPath =>
        LET text == OrEmpty(assistant_message.content)
        IN  /\ pc = "direct" => ChunkText = SubSeq(text, 1, idx - 1)
            /\ pc \in {"save_asst", "end", "done"} => ChunkText = text
            /\ pc = "done" => SelectSeq(trace, IsEvent) = ChunkEvents \o <<EndEvent>>

\* a direct answer of two characters has been streamed to its end
C8_Witness ==
    /\ pc = "done" /\ status = 200 /\ DirectPath
    /\ assistant_message.content = Some(AsstText)
    /\ Len(ChunkEvents) = Len(AsstText)
    /\ LastOfTrace = EndEvent

C9_Abandoned ==
    \A j \in 1..Len(trace) :
        trace[j] = GatewayRaise =>
            /\ Len(trace) = j + 1
            /\ trace[j + 1] = ErrorEvent(UpstreamError)
            /\ pc = "done"
            /\ frame[Orch].pc \in {"idle", "done"}
            /\ ~ InTrace(EndEvent)
            /\ Len(SelectSeq(trace, IsGatewayCall)) = Len(gw_messages)

\* C9: after a gateway failure the request only emits one error event: no
\* further gateway call, tool call, store write or end event, and the store
\* stays as it is.
C9_GatewayFailureAbandonsRequest ==
    /\ []C9_Abandoned
    /\ [][InTrace(GatewayRaise) => UNCHANGED <<store, ttl, trace, gw_messages>>]_vars

\* the streaming completion failed after tool results and a chunk
C9_Witness ==
    /\ InTrace(GatewayRaise)
    /\ session_id \in DOMAIN store
    /\ ChunkEvents # <<>>
    /\ ToolResultEvents # <<>>
    /\ InTrace(StoreWrite("user", prompt))

\* the tool call cannot be carried out
FailingToolCall(tc) ==
    \/ tc.name \notin ToolNames
    \/ ~ JsonLoads(tc.arguments).ok
    \/ CallRaises(tc.name, JsonLoads(tc.arguments).keys)

FailureTexts == {"Unknown tool: ", "Error executing ", "Error executing tool "}

\* the tool calls whose arguments parse, in the order of the requests
RECURSIVE Parseable(_)
Parseable(tcs) ==
    IF tcs = <<>> THEN <<>>
    ELSE IF JsonLoads(Head(tcs).arguments).ok
         THEN <<Head(tcs).name>> \o Parseable(Tail(tcs))
         ELSE Parseable(Tail(tcs))

\* C10: a failing tool call is not fatal: every requested call adds one tool
\* message (the failure text for a failing one), the calls that follow are
\* executed in order, the streaming completion is issued with those messages,
\* an error event only ever follows a gateway failure, and the response ends
\* with end when the gateway does not fail.
C10_ToolFailuresNotFatal ==
    LET tcs == assistant_message.tool_calls
    IN  (\E i \in 1..Len(tcs) : FailingToolCall(tcs[i])) =>
            /\ pc = "tools" => Len(tool_results) = idx - 1
            /\ \A i \in 1..Len(tool_results) :
                /\ tool_results[i].role = "tool"
                /\ tool_results[i].tool_call_id = i
                /\ FailingToolCall(tcs[i]) => tool_results[i].content[1] \in FailureTexts
            /\ \A j \in 1..Len(trace) :
                trace[j].type = "error" => (j > 1 /\ trace[j - 1] = GatewayRaise)
            /\ pc \in {"streaming", "save_asst", "end", "done"} =>
                /\ Len(tool_results) = Len(tcs)
                /\ [i \in 1..Len(ToolCallsMade) |-> ToolCallsMade[i].tool] = Parseable(tcs)
                /\ InTrace(GatewayCall("stream"))
                /\ Len(gw_messages) = 2
                /\ gw_messages[2] = gw_messages[1] \o <<AssistantMessage(assistant_message)>>
                                        \o tool_results
            /\ (pc = "done" /\ ~ InTrace(GatewayRaise)) => LastOfTrace = EndEvent

\* a response that ended with end although its first tool call had unparseable
\* arguments; the second call was still executed
C10_Witness ==
    /\ pc = "done" /\ status = 200 /\ LastOfTrace = EndEvent
    /\ Len(assistant_message.tool_calls) = 2
    /\ ~ JsonLoads(assistant_message.tool_calls[1].arguments).ok
    /\ ~ FailingToolCall(assistant_message.tool_calls[2])
    /\ Len(ToolCallsMade) = 1

\* C11: execute_tool answers every name and every argument mapping with a
\* string: 'Unknown tool: <name>' for a name outside the registry, a text
\* starting 'Error executing <name>: ' for a registered tool whose call
\* raises, the tool's own text otherwise; POST /tools/test with a non-empty
\* tool_name answers 200 carrying that string.
C11_ExecuteToolNeverRaises ==
    (tool_response # NoToolResponse /\ ~ NoToolName(tool_request.tool_name)) =>
        LET name == tool_request.tool_name[1]
            keys == tool_request.arguments
            result == tool_response.result
        IN  /\ tool_response.status = 200
            /\ name \notin ToolNames => result = <<"Unknown tool: ", name>>
            /\ (name \in ToolNames /\ CallRaises(name, keys)) =>
                    SubSeq(result, 1, 3) = <<"Error executing ", name, ": ">>
            /\ (name \in ToolNames /\ ~ CallRaises(name, keys)) =>
                    result = ToolOutput(name, Mapping(keys))

\* an unknown tool name was tested with a non-empty arguments mapping
C11_Witness ==
    /\ tool_response.status = 200
    /\ tool_request.tool_name = Some("nonexistent_tool")
    /\ tool_request.arguments # {}
    /\ tool_response.result = <<"Unknown tool: ", "nonexistent_tool">>

\* C12: a save_message whose read finds no session under the id returns at
\* once (no exception leaves it) and writes nothing: the store and the
\* time-to-live of every key stay as they are, and no session appears under
\* that id.
C12_SaveOnAbsentSessionWritesNothing ==
    [][\A c \in Callers :
        (/\ frame[c].op = "save" /\ frame[c].pc = "get"
         /\ frame'[c] # frame[c]
         /\ frame[c].session_id \notin DOMAIN store)
        => /\ frame'[c].pc = "done"
           /\ frame'[c].status # 200
           /\ store' = store
           /\ ttl' = ttl
           /\ frame[c].session_id \notin DOMAIN store']_vars

\* save_message has returned, having written nothing, for a session that
\* another caller had deleted
C12_Witness ==
    \E c1, c2 \in Callers :
        /\ frame[c1].op = "save" /\ frame[c1].pc = "done" /\ frame[c1].status = 0
        /\ frame[c1].session_id \in issued \ DOMAIN store
        /\ frame[c2].op = "delete" /\ frame[c2].status = 200
        /\ frame[c2].session_id = frame[c1].session_id

\* C13: a session fetched with an empty message list (as create_session left
\* it) has created_at equal to last_activity, however the clock advanced
\* between the two readings create_session makes.
C13_CreatedAtEqualsLastActivity ==
    \A c \in Callers :
        (frame[c].op = "fetch" /\ frame[c].status = 200
            /\ frame[c].seen.messages = <<>>)
        => frame[c].seen.created_at = frame[c].seen.last_activity

\* the second of two sequential exchanges on the created session s1 has ended
\* with end, as the first did, and both carried an answer text
TwoExchangesEnded ==
    /\ pc = "done" /\ status = 200
    /\ Len(trace) > 4
    /\ IsStart(trace[1]) /\ trace[1].tool = "s1"
    /\ trace[2].kind = "answer" /\ trace[2].type = "nonempty"
    /\ trace[3] = EndEvent
    /\ trace[4] = StartEntry(prompt, "s1")
    /\ LastOfTrace = EndEvent
    /\ ChunkText # <<>>

\* C14: a created session given two sequential exchanges that both end with
\* end and have a non-empty answer holds exactly four messages, with the
\* roles user, assistant, user, assistant and the two prompts, in call order,
\* as the user contents.
C14_TwoExchangesRoundTrip ==
    TwoExchangesEnded =>
        LET h == store["s1"].messages
        IN  /\ Len(h) = 2 * Exchanges
            /\ [i \in 1..Len(h) |-> h[i].role] = <<"user", "assistant", "user", "assistant">>
            /\ h[1].content = trace[1].text
            /\ h[3].content = prompt
            /\ h[2].content # <<>> /\ h[4].content # <<>>

\* two exchanges with different prompts, the second one with a tool call
C14_Witness ==
    /\ TwoExchangesEnded
    /\ trace[1].text # prompt
    /\ ToolResultEvents # <<>>
    /\ Len(store["s1"].messages) = 2 * Exchanges

\* C15: a DELETE that answers 200 has removed the session; a GET or a DELETE
\* of an id with no session in the store (deleted before, or never created)
\* answers 404 and changes nothing.
C15_DeleteThenNotFound ==
    [][\A c \in Callers :
        LET sid == frame'[c].session_id
        IN  /\ (frame[c].pc = "del_delete" /\ frame'[c].pc = "done"
                    /\ frame'[c].status = 200)
                => sid \notin DOMAIN store'
            /\ (frame[c].pc = "del_get" /\ frame'[c] # frame[c]
                    /\ sid \notin DOMAIN store)
                => (frame'[c].pc = "done" /\ frame'[c].status = 404 /\ store' = store)
            /\ (frame'[c].op = "fetch" /\ frame'[c] # frame[c]
                    /\ sid \notin DOMAIN store)
                => (frame'[c].status = 404 /\ store' = store)]_vars

\* s1 was deleted with 200, and a second DELETE of it was answered 404
C15_Witness ==
    \E c1, c2 \in Callers :
        /\ frame[c1].op = "delete" /\ frame[c1].status = 200 /\ frame[c1].session_id = "s1"
        /\ frame[c2].op = "delete" /\ frame[c2].status = 404 /\ frame[c2].session_id = "s1"
        /\ "s1" \notin DOMAIN store

\* the step is a successful setex of key k: by create_session, or by a
\* save_message that found the session
Written(k) ==
    \/ k \in issued' \ issued
    \/ \E c \in Callers :
        /\ frame[c].pc = "setex" /\ frame'[c].pc = "done" /\ frame'[c].status = 200
        /\ frame[c].session_id = k

\* the step is a successful redis delete of key k
Deleted(k) ==
    \E c \in Callers :
        /\ frame[c].pc = "del_delete" /\ frame'[c].pc = "done" /\ frame'[c].status = 200
        /\ frame[c].session_id = k

\* the step is made by no handler: Redis time passes
TimePasses == frame' = frame /\ issued' = issued /\ ncalls' = ncalls

C16_Live ==
    /\ DOMAIN ttl = DOMAIN store
    /\ \A k \in DOMAIN store : ttl[k] > 0 /\ ttl[k] <= SessionTTL

C16_Step ==
    \A k \in SessionIds :
        /\ Written(k) => (k \in DOMAIN store' /\ ttl'[k] = SessionTTL)
        /\ (k \notin DOMAIN store /\ k \in DOMAIN store') => Written(k)
        /\ (k \in DOMAIN store /\ k \in DOMAIN store' /\ ~ Written(k)) =>
                /\ store'[k] = store[k]
                /\ IF TimePasses THEN ttl'[k] <= ttl[k] ELSE ttl'[k] = ttl[k]
        /\ (k \in DOMAIN store /\ k \notin DOMAIN store') =>
                \/ Deleted(k)
                \/ /\ TimePasses
                   /\ \A j \in DOMAIN store' : ttl[j] - ttl'[j] >= ttl[k]

\* C16: every successful write of a session (create_session, and a
\* save_message that found it) leaves the key with 86400 seconds to live; a
\* stored session always has time left, and it leaves the store only by a
\* delete or when the time that has passed since its last write reaches its
\* time-to-live; a step that does not write the key (the reads among them)
\* never adds to its time-to-live.
C16_TtlRefreshedByWritesOnly ==
    /\ []C16_Live
    /\ [][C16_Step]_vars

\* a session is fetched 86399 seconds after a save_message wrote it: it has
\* one second left
C16_Witness ==
    /\ frame[Client].op = "fetch" /\ frame[Client].status = 200
    /\ frame[Client].session_id = "s1"
    /\ "s1" \in DOMAIN store
    /\ ttl["s1"] = 1
    /\ frame[Client].seen.last_activity >= Epoch

\* C17: save_message writes back the blob it read with its message appended
\* (cut to the last 20), whatever the store holds by then: the messages of a
\* session change only by such a write, so a stored turn disappears only when
\* it was written after the writer's read (a lost update) or is the oldest of
\* a full list; deletion and expiry remove the whole session.
C17_WritesBackWhatItRead ==
    [][\A k \in SessionIds :
        (k \in DOMAIN store /\ k \in DOMAIN store'
            /\ store'[k].messages # store[k].messages)
        => \E c \in Callers :
            /\ frame[c].pc = "setex" /\ frame'[c].pc = "done" /\ frame'[c].status = 200
            /\ frame[c].session_id = k
            /\ LET read == frame[c].seen.messages
                   new == store'[k].messages
               IN  /\ new # <<>>
                   /\ new[Len(new)].role = frame[c].role
                   /\ new[Len(new)].content = frame[c].content
                   /\ SubSeq(new, 1, Len(new) - 1)
                        = IF Len(read) >= MaxMessages
                          THEN SubSeq(read, Len(read) - MaxMessages + 2, Len(read))
                          ELSE read]_vars

\* the lost update: two callers read the same blob of s1, both save_message
\* calls returned after a successful setex, and the stored history is that
\* blob with one turn appended, not two
C17_Witness ==
    \E c1, c2 \in Callers :
        /\ c1 # c2
        /\ \A c \in {c1, c2} :
            /\ frame[c].op = "save" /\ frame[c].pc = "done" /\ frame[c].status = 200
            /\ frame[c].session_id = "s1"
        /\ frame[c1].seen = frame[c2].seen
        /\ Len(frame[c1].seen.messages) = 0
        /\ "s1" \in DOMAIN store
        /\ Len(store["s1"].messages) = 1
        /\ store["s1"].messages[1].content = frame[c2].content
        /\ frame[c1].content # frame[c2].content

\* the successful writes of the request, in order
Writes == SelectSeq(trace, LAMBDA e : e.kind = "write")
\* the history the request loaded: the first gateway call without the system
\* prompt and the new user message
Loaded == SubSeq(gw_messages[1], 2, Len(gw_messages[1]) - 1)
RoleAndContent(m) == <<m.role, m.content>>

\* C18: a request on an existing session (Redis answering, no other writer)
\* that has ended with end made exactly two appends, the user turn with the
\* prompt and then one assistant turn, and the stored history is the loaded
\* one with these two turns at its end (cut to the last 20); a direct answer
\* with no text made the user append only.
C18_TwoAppendsPerExchange ==
    (/\ pc = "done" /\ status = 200
     /\ LastOfTrace = EndEvent
     /\ session_id \in DOMAIN store
     /\ NoStoreFailure)
    => LET am == assistant_message
           emptyDirect == am.tool_calls = <<>> /\ OrEmpty(am.content) = <<>>
           text == IF am.tool_calls = <<>> THEN OrEmpty(am.content) ELSE complete_response
           appended == IF emptyDirect
                       THEN <<StoreWrite("user", prompt)>>
                       ELSE <<StoreWrite("user", prompt), StoreWrite("assistant", text)>>
           expected == [i \in 1..Len(Loaded) |-> RoleAndContent(Loaded[i])]
                        \o [i \in 1..Len(appended) |-> <<appended[i].tool, appended[i].text>>]
           h == store[session_id].messages
       IN  /\ Writes = appended
           /\ [i \in 1..Len(h) |-> RoleAndContent(h[i])] = LastN(expected, MaxMessages)

\* a request with a tool call on a session of 19 turns has ended: two appends,
\* and the oldest turn is gone
C18_Witness ==
    /\ pc = "done" /\ status = 200
    /\ LastOfTrace = EndEvent
    /\ session_id \in DOMAIN store
    /\ NoStoreFailure
    /\ assistant_message.tool_calls # <<>>
    /\ Len(Writes) = 2
    /\ Len(Loaded) = MaxMessages - 1
    /\ Len(store[session_id].messages) = MaxMessages

\* the text is empty or consists only of whitespace
Blank(t) == \A i \in 1..Len(t) : t[i] = " "

\* C19: every message the /stream request persists, and every message a
\* session holds, has a non-empty content and the role user or assistant;
\* a user turn that is written is not blank.
C19_PersistedContentNonEmpty ==
    /\ \A i \in 1..Len(trace) :
        trace[i].kind = "write" =>
            /\ trace[i].text # <<>>
            /\ trace[i].tool \in {"user", "assistant"}
            /\ trace[i].tool = "user" => ~ Blank(trace[i].text)
    /\ frame[Orch].op = "save" =>
            (frame[Orch].content # <<>> /\ frame[Orch].role \in {"user", "assistant"})
    /\ \A s \in DOMAIN store : \A i \in 1..Len(store[s].messages) :
            /\ store[s].messages[i].content # <<>>
            /\ store[s].messages[i].role \in {"user", "assistant"}

\* the tool-call path with a null first content and no streamed text: the
\* assistant turn that was written is the tool results block
C19_Witness ==
    /\ pc = "done" /\ status = 200
    /\ LastOfTrace = EndEvent
    /\ assistant_message.tool_calls # <<>>
    /\ assistant_message.content = None
    /\ ChunkText = <<>>
    /\ Len(Writes) = 2
    /\ Writes[2].tool = "assistant"

\* what the store held when the request arrived
InitialStore(n) == [x \in {"s1"} |-> [NewSession("s1", 0, n) EXCEPT !.messages = Preloaded(n)]]

\* C20: a POST /stream whose prompt is empty or only whitespace is answered
\* 400, with or without a session_id, and nothing else happens: the generator
\* is not started, no gateway call is made, no session is read or written;
\* and 400 is the answer to such prompts only.
C20_BlankPromptRejected ==
    /\ (pc # "idle" /\ Blank(prompt)) =>
            /\ status = 400
            /\ pc = "done"
            /\ trace = <<>>
            /\ gw_messages = <<>>
            /\ messages = <<>>
            /\ frame[Orch] = IdleFrame
            /\ \E n \in RequestPreloadLens : store = InitialStore(n)
            /\ ttl = [x \in {"s1"} |-> SessionTTL]
    /\ status = 400 => Blank(prompt)

\* a prompt of one space naming an existing session was answered 400
C20_Witness ==
    /\ pc = "done" /\ status = 400
    /\ prompt = <<" ">>
    /\ session_id = "s1"
    /\ "s1" \in DOMAIN store

\* a POST /stream arrives in this step
Arrives == arrivals' = arrivals + 1
\* the address the arriving request comes from
ArrivesFrom(a) == Arrives /\ hits'[a] = hits[a] + 1
\* nothing of the orchestrator has run: no event, no gateway call, no store
\* call, no session written
OrchestratorIdle ==
    /\ trace = <<>>
    /\ gw_messages = <<>>
    /\ messages = <<>>
    /\ frame[Orch] = IdleFrame

C22_CountersInStore ==
    [][\A a \in Addresses :
        /\ ArrivesFrom(a) => SlowapiKey(a) \in DOMAIN store'
        /\ (rate_info' # rate_info /\ rate_info'.ip = a /\ ~rate_info'.error) =>
                rate_info'.current_requests = hits'[a]]_vars

\* the tool call asks for calculate with an expression
AsksCalculate(tc) ==
    /\ tc.name = "calculate"
    /\ JsonLoads(tc.arguments).ok
    /\ JsonLoads(tc.arguments).keys = {"expression"}
Contains(text, sym) == \E k \in 1..Len(text) : text[k] = sym

\* C23: the turn of the tool loop for a tool call that asks for calculate
\* with {expression: e} calls execute_tool once, with the name calculate and
\* that mapping, and sends a tool_result event that names calculate and
\* carries the string the call returned (the one also put in the tool
\* message); no terminal event has been sent by then; for e = "2 + 2 * 3"
\* that string is "Result: 2 + 2 * 3 = 8".
C23_CalculateToolResult ==
    [][(/\ pc = "tools"
        /\ idx' = idx + 1
        /\ AsksCalculate(assistant_message.tool_calls[idx])) =>
            LET arguments == JsonLoads(assistant_message.tool_calls[idx].arguments).value
                result == tool_results'[idx].content
            IN  /\ Len(trace') = Len(trace) + 2
                /\ SubSeq(trace', 1, Len(trace)) = trace
                /\ trace'[Len(trace) + 1] = ToolCall("calculate", arguments)
                /\ trace'[Len(trace) + 2] = ToolResultEvent("calculate", result)
                /\ arguments["expression"] = Precedence =>
                        /\ Contains(result, "8")
                        /\ result = <<"Result: ">> \o Precedence \o <<" = ", "8">>
                /\ \A t \in 1..Len(trace) : ~ Terminal(trace[t])]_vars

\* the first completion asked for calculate of "2 + 2 * 3"; the response
\* carried the tool_result event with 8 and has ended
C23_Witness ==
    /\ pc = "done" /\ status = 200
    /\ LastOfTrace = EndEvent
    /\ assistant_message.tool_calls # <<>>
    /\ assistant_message.tool_calls[1] = [name |-> "calculate", arguments |-> GoodArgs]
    /\ \E j \in 1..Len(trace) :
            /\ IsToolResult(trace[j])
            /\ trace[j].tool = "calculate"
            /\ Contains(trace[j].text, "8")

\* digits, the operators + - * /, parentheses, whitespace, the decimal point
ArithmeticChar(c) == c \in Digits \cup {"+", "-", "*", "/", ".", "(", ")", " "}
IsErrorResult(text) == text # <<>> /\ text[1] = "Error calculating "

\* C24: calculate rejects, without evaluating, every expression that holds
\* a character other than digits, + - * /, parentheses, whitespace and the
\* decimal point: eval is not called for it and the string returned is an
\* error result.
C24_RejectsOtherCharacters ==
    (calc # NoCalc /\ \E k \in 1..Len(calc.expression) : ~ ArithmeticChar(calc.expression[k]))
        => (calc.evaluated = None /\ IsErrorResult(calc.result))

\* C25: the text calculate hands to eval holds only digits, + - * /,
\* parentheses, spaces and the decimal point, every other character of the
\* argument, letters and underscores included, having been removed; and the
\* string returned is an error string or gives the value of that text.
C25_EvaluatesArithmeticOnly ==
    (calc # NoCalc /\ calc.evaluated # None) =>
        /\ calc.evaluated[1] = SelectSeq(calc.expression, ArithmeticChar)
        /\ \A k \in 1..Len(calc.evaluated[1]) : ArithmeticChar(calc.evaluated[1][k])
        /\ \/ IsErrorResult(calc.result)
           \/ /\ eval(calc.evaluated[1]).ok
              /\ calc.result = <<"Result: ">> \o calc.evaluated[1]
                                    \o <<" = ", Str(eval(calc.evaluated[1]).v)>>

\* C26: the message list of the first completion is the one built when the
\* history was loaded: the system prompt, then the turns the session held at
\* that moment (before the user turn of this request was saved), oldest
\* first, then the new user prompt, once, as the last element.  The history
\* part is empty when no session id was given, when the session is absent,
\* and when the read of the session failed.
C26_FirstMessageList ==
    [][/\ (pc = "load" /\ pc' # "load") =>
            LET persisted == IF session_id \in DOMAIN store
                             THEN store[session_id].messages ELSE <<>>
                n == Len(messages') - 2
            IN  /\ n >= 0
                /\ messages'[1] = ListMessage("system", SYSTEM_PROMPT)
                /\ messages'[n + 2] = ListMessage("user", prompt)
                /\ \/ /\ trace' = trace
                      /\ n = Len(persisted)
                      /\ \A i \in 1..n :
                            /\ messages'[i + 1].role = persisted[i].role
                            /\ messages'[i + 1].content = persisted[i].content
                            /\ messages'[i + 1].timestamp = persisted[i].timestamp
                   \/ /\ trace' = Append(trace, PrintRetrieving)
                      /\ n = 0
       /\ (pc = "save_user" /\ pc' = "save_user") => messages' = messages
       /\ (gw_messages = <<>> /\ gw_messages' # <<>>) => gw_messages' = <<messages>>]_vars

\* the first completion got the 19 turns the session held, between the
\* system prompt and the new prompt, and the session now holds 20
C26_Witness ==
    /\ gw_messages # <<>>
    /\ Len(gw_messages[1]) = 21
    /\ session_id = "s1"
    /\ "s1" \in DOMAIN store
    /\ Len(store["s1"].messages) = 20
    /\ store["s1"].messages[20].content = prompt
    /\ gw_messages[1][21].content = prompt
    /\ gw_messages[1][2].timestamp = 1

\* the tool calls among the first i whose arguments parse
ParsedUpTo(tcs, i) == Cardinality({n \in 1..i : JsonLoads(tcs[n].arguments).ok})

\* the second gateway call got the list of the first, the assistant message
\* and one tool message per tool call
StreamingMessageList ==
    Len(gw_messages) >= 2 =>
        LET first == gw_messages[1]
            second == gw_messages[2]
            tcs == assistant_message.tool_calls
            n == Len(first)
            results == ToolResultEvents
        IN  /\ Len(gw_messages) = 2
            /\ tcs # <<>>
            /\ Len(second) = n + 1 + Len(tcs)
            /\ SubSeq(second, 1, n) = first
            /\ second[n + 1].role = "assistant"
            /\ second[n + 1].tool_calls = tcs
            /\ second[n + 1].content = OrEmpty(assistant_message.content)
            /\ Len(results) = ParsedUpTo(tcs, Len(tcs))
            /\ \A i \in 1..Len(tcs) :
                    LET m == second[n + 1 + i]
                    IN  /\ m.role = "tool"
                        /\ m.tool_call_id = i
                        /\ m.tool_calls = <<>>
                        /\ IF JsonLoads(tcs[i].arguments).ok
                           THEN /\ m.content = results[ParsedUpTo(tcs, i)].text
                                /\ results[ParsedUpTo(tcs, i)].tool = tcs[i].name
                                /\ tcs[i].name \notin ToolNames =>
                                        m.content = <<"Unknown tool: ", tcs[i].name>>
                           ELSE m.content = error_result(tcs[i].name)

\* C27: on the tool-call path the message list of the streaming completion
\* is the list of the first completion, then the assistant message with its
\* tool calls, then one tool message per tool call, in the order of the tool
\* calls, each with the id of its tool call and with the string its
\* execute_tool call returned (the one its tool_result event carries), or
\* the error text when its arguments did not parse.
C27_StreamingMessageList ==
    [][(Len(gw_messages) = 1 /\ Len(gw_messages') # 1) => StreamingMessageList']_vars

\* two tool calls, the first with arguments that do not parse, the second
\* carried out: the streaming completion got both tool messages, in order
C27_Witness ==
    /\ Len(gw_messages) = 2
    /\ Len(assistant_message.tool_calls) = 2
    /\ ~ JsonLoads(assistant_message.tool_calls[1].arguments).ok
    /\ assistant_message.tool_calls[2] = [name |-> "calculate", arguments |-> GoodArgs]
    /\ LET second == gw_messages[2]
       IN  /\ second[Len(second) - 1].tool_call_id = 1
           /\ second[Len(second) - 1].content = error_result("calculate")
           /\ second[Len(second)].tool_call_id = 2
           /\ second[Len(second)].content = <<"Result: ">> \o Precedence \o <<" = ", "8">>

\* positions of the trace
CallsOf(kind) == {i \in 1..Len(trace) : trace[i] = GatewayCall(kind)}

\* a /stream request that is answered with a stream calls the first
\* (non-streaming) completion once, and has done so when the response ends;
\* it calls the streaming completion at most once, never before the first
\* completion has returned tool calls and every one of them has been dealt
\* with, and a response that ended with end has called it exactly when the
\* first completion returned at least one tool call; after a gateway call
\* has failed no gateway call is made.
GatewayCallsOncePerPhase ==
    LET first == CallsOf("complete")
        second == CallsOf("stream")
    IN  /\ Cardinality(first) <= 1
        /\ Cardinality(second) <= 1
        /\ Len(gw_messages) = Cardinality(first) + Cardinality(second)
        /\ (pc = "done" /\ status = 200) => Cardinality(first) = 1
        /\ \A i \in second :
                /\ \E j \in first : j < i
                /\ assistant_message.tool_calls # <<>>
                /\ Len(tool_results) = Len(assistant_message.tool_calls)
                /\ \A j \in (i + 1)..Len(trace) :
                        ~ IsToolCall(trace[j]) /\ ~ IsToolResult(trace[j])
        /\ (pc = "done" /\ status = 200 /\ LastOfTrace = EndEvent) =>
                (second # {} <=> assistant_message.tool_calls # <<>>)
        /\ \A i \in 1..Len(trace) :
                trace[i] = GatewayRaise =>
                    \A j \in (i + 1)..Len(trace) : ~ IsGatewayCall(trace[j])

\* C28: at every moment of a /stream request the gateway calls made so far
\* are as described above (the first completion once, the streaming
\* completion at most once, after the tool calls, exactly when there were
\* tool calls), and every step that makes a gateway call makes one call, the
\* first or the second of the request, with no failed gateway call before it.
C28_GatewayCallsOncePerPhase ==
    /\ []GatewayCallsOncePerPhase
    /\ [][gw_messages' # gw_messages =>
            /\ Len(gw_messages') = Len(gw_messages) + 1
            /\ Len(gw_messages') <= 2
            /\ SubSeq(gw_messages', 1, Len(gw_messages)) = gw_messages
            /\ ~ InTrace(GatewayRaise)]_vars

\* two tool calls were carried out, then the streaming completion was called
\* and failed while streaming: the response ended with error, each
\* completion called once
C28_Witness ==
    /\ pc = "done" /\ status = 200
    /\ Len(ToolCallsMade) = 2
    /\ Cardinality(CallsOf("complete")) = 1
    /\ Cardinality(CallsOf("stream")) = 1
    /\ InTrace(GatewayRaise)
    /\ streamed # <<>>
    /\ LastOfTrace = ErrorEvent(UpstreamError)

\* the fragments pulled so far whose content is not null
NonNull == SelectSeq(streamed, LAMBDA f : f # None)

\* C29: on the tool-call path the chunk events sent are the fragments of
\* the streaming completion whose content is not null (the empty string
\* included), one event per fragment, in the order pulled; the event of a
\* fragment is sent in the step that pulls it, before the next is pulled,
\* and a fragment with null content sends nothing.
C29_ChunksAreTheFragments ==
    /\ [](assistant_message.tool_calls # <<>> =>
            /\ Len(ChunkEvents) = Len(NonNull)
            /\ \A i \in 1..Len(NonNull) : ChunkEvents[i] = ChunkEvent(NonNull[i][1]))
    /\ [][streamed' # streamed =>
            /\ Len(streamed') = Len(streamed) + 1
            /\ SubSeq(streamed', 1, Len(streamed)) = streamed
            /\ LET f == streamed'[Len(streamed')]
               IN  IF f = None THEN trace' = trace
                   ELSE trace' = Append(trace, ChunkEvent(f[1]))]_vars

\* a null fragment, then an empty one: one chunk event, with the empty text
C29_Witness ==
    /\ pc = "done" /\ status = 200
    /\ LastOfTrace = EndEvent
    /\ streamed = <<None, Some(<<>>)>>
    /\ ChunkEvents = <<ChunkEvent(<<>>)>>

\* get_session calls the request has made: for the history, and in each
\* save_message entered
Retrievals == SelectSeq(trace, LAMBDA e : e = PrintRetrieving)

\* C30: with Redis down, a /stream request that names a session goes on as
\* one without history: get_session gives None and prints, never raises; the
\* first completion gets the system prompt and the prompt only; each
\* save_message returns after its failed read, having written nothing; the
\* store stays as it was; an error signal is only sent after a failed
\* gateway call, and a response with no failed gateway call ends with end.
C30_StoreOutageTolerated ==
    (HasSession(session_id) /\ pc # "idle" /\ status # 400) =>
        /\ \E n \in RequestPreloadLens : store = InitialStore(n)
        /\ ttl = [x \in {"s1"} |-> SessionTTL]
        /\ Writes = <<>>
        /\ gw_messages # <<>> =>
                gw_messages[1] = <<ListMessage("system", SYSTEM_PROMPT),
                                   ListMessage("user", prompt)>>
        /\ frame[Orch].pc \in {"idle", "get", "done"}
        /\ frame[Orch].pc = "done" =>
                /\ frame[Orch].status = 500
                /\ frame[Orch].seen = NoData
        /\ \A i \in 1..Len(trace) :
                (trace[i].kind = "event" /\ trace[i].type = "error") =>
                    (i > 1 /\ trace[i - 1] = GatewayRaise)
        /\ (pc = "done" /\ ~ InTrace(GatewayRaise)) =>
                /\ LastOfTrace = EndEvent
                /\ Len(Retrievals) >= 2
                /\ (assistant_message.tool_calls # <<>> \/ Truthy(assistant_message.content))
                        => Len(Retrievals) = 3

\* a request on the existing session s1 with 19 turns, Redis down: the
\* answer was streamed and the response ended with end after three failed
\* reads (history, user turn, assistant turn); the session is as it was
C30_Witness ==
    /\ pc = "done" /\ status = 200
    /\ session_id = "s1"
    /\ store = InitialStore(19)
    /\ LastOfTrace = EndEvent
    /\ ChunkEvents # <<>>
    /\ Len(Retrievals) = 3
    /\ Len(gw_messages[1]) = 2

(***************************************************************************)
(* C31                                                                     *)
(***************************************************************************)
\* the arguments of the tested call carry parameter names of the advertised
\* schema of the tool, all the required ones among them
FollowsSchema ==
    /\ tool_response # NoToolResponse
    /\ ~ NoToolName(tool_request.tool_name)
    /\ tool_request.tool_name[1] \in ToolNames
    /\ ToolSchema(tool_request.tool_name[1]).required \subseteq tool_request.arguments
    /\ tool_request.arguments \subseteq ToolSchema(tool_request.tool_name[1]).properties

\* C31: execute_tool called for an advertised tool with an argument mapping
\* whose keys are parameter names of its advertised schema (the required
\* ones at least) reaches the registered function, so the result does not
\* start with 'Error executing '; create_reminder called with title and
\* datetime (an ISO-8601 text), with or without description, returns a
\* 'Reminder created' result.
C31_SchemaArgumentsReachTheFunction ==
    FollowsSchema =>
        /\ tool_response.result[1] # "Error executing "
        /\ tool_request.tool_name = Some("create_reminder") =>
                tool_response.result[1] = "Reminder created: "

(***************************************************************************)
(* C39                                                                     *)
(***************************************************************************)
\* C39: POST /tools/test whose body has no tool_name, or an empty one, is
\* answered with HTTP 400 'tool_name is required', and no tool is executed
\* (the answer carries no result of execute_tool).
C39_MissingToolNameIs400 ==
    (tool_response # NoToolResponse /\ NoToolName(tool_request.tool_name)) =>
        /\ tool_response.status = 400
        /\ tool_response.result = <<"tool_name is required">>

(***************************************************************************)
(* C32                                                                     *)
(***************************************************************************)
Admitted == status = 200
Ended == pc = "done" /\ status = 200 /\ Terminal(LastOfTrace)

\* C32: every admitted /stream request eventually reaches its terminal
\* event (each gateway, tool and store call returning or failing, the stream
\* yielding finitely many fragments); once it has, nothing more is emitted
\* and the request takes no further step; and until then its next step can
\* always be taken, whatever the store answered: it waits on nothing.
C32_AdmittedRequestTerminates ==
    /\ Admitted ~> Ended
    /\ [][Ended => (trace' = trace /\ pc' = pc)]_vars
    /\ []((Admitted /\ ~ Ended) => ENABLED <<Handler>>_vars)

\* a request on a session took the tool path, the save of the user turn
\* failed in Redis, a fragment was streamed, and the response ended with end
C32_Witness ==
    /\ pc = "done"
    /\ status = 200
    /\ LastOfTrace = EndEvent
    /\ HasSession(session_id)
    /\ InTrace(PrintSaving)
    /\ InTrace(GatewayCall("stream"))
    /\ \E i \in 1..Len(trace) : IsChunk(trace[i])

(***************************************************************************)
(* C33                                                                     *)
(***************************************************************************)
\* DELETE /session/{id} has answered 200 for the id: uuid4 never hands an id
\* out twice and no key runs out in SpecStore, so an id that was handed out
\* and has no session is an id whose session a delete removed
DeletedSession(sid) == sid \in issued /\ sid \notin DOMAIN store

\* C33: once DELETE /session/{id} has answered 200 the session stays absent
\* in every later state (a fetch answers 404), also when a save_message for
\* the id had read the session before the delete: no later step puts a
\* session back under a deleted id.
C33_DeletedSessionStaysAbsent ==
    [][\A sid \in SessionIds : DeletedSession(sid) => DeletedSession(sid)']_vars

\* the save_message of caller c has read the session sid and not yet
\* written it
StaleWriter(c, sid) ==
    /\ frame[c].op = "save"
    /\ frame[c].pc \in {"build", "setex"}
    /\ frame[c].session_id = sid

\* C33, amended: after DELETE /session/{id} has answered 200 a fetch of the
\* id answers 404 while the session is absent, a save_message that reads the
\* id from then on returns without writing, and with no save_message in
\* flight that read the session before the delete the session stays absent;
\* the only step that puts a session back under the id is the setex of a
\* save_message that had read it before the delete, which writes the blob
\* it built from what it read.
C33_DeletedSessionReturnsOnlyByStaleWrite ==
    [][\A sid \in SessionIds :
        DeletedSession(sid) =>
            /\ ~ DeletedSession(sid)' =>
                    \E c \in Callers :
                        /\ StaleWriter(c, sid)
                        /\ frame[c].pc = "setex"
                        /\ frame[c].seen.session_id = sid
                        /\ frame'[c].status = 200
                        /\ store'[sid] = frame[c].session_data
            /\ \A c \in Callers :
                    /\ (frame'[c] # frame[c] /\ frame[c].pc = "get"
                            /\ frame[c].session_id = sid) => frame'[c].pc = "done"
                    /\ (frame'[c] # frame[c] /\ frame'[c].op = "fetch"
                            /\ frame'[c].session_id = sid) => frame'[c].status = 404
                    /\ StaleWriter(c, sid)' => StaleWriter(c, sid)]_vars

\* a DELETE of s1 has answered 200, and s1 is in the store again, written
\* back by a save_message that had read it before
C33_Witness ==
    /\ "s1" \in DOMAIN store
    /\ \E c, d \in Callers :
        /\ frame[c].op = "delete" /\ frame[c].pc = "done" /\ frame[c].status = 200
        /\ frame[c].session_id = "s1"
        /\ frame[d].op = "save" /\ frame[d].pc = "done" /\ frame[d].status = 200
        /\ frame[d].session_id = "s1"
        /\ store["s1"] = frame[d].session_data

(***************************************************************************)
(* C34                                                                     *)
(***************************************************************************)
\* a turn appended by a save_message of SpecTurns (the preloaded turns are
\* older than Epoch); its text tells which call appended it
IsAppended(m) == m.timestamp >= Epoch
AppendedTurns(l) == SelectSeq(l, IsAppended)

\* the histories that exist: the stored one, and those the save_message
\* calls in flight have read or built
Histories ==
    {store[k].messages : k \in DOMAIN store}
    \cup {frame[c].seen.messages : c \in {d \in Callers : frame[d].pc \in {"build", "setex"}}}
    \cup {frame[c].session_data.messages : c \in {d \in Callers : frame[d].pc = "setex"}}

\* the turns two histories share are in the same order in both
SameOrder(l1, l2) ==
    LET a1 == AppendedTurns(l1)
        a2 == AppendedTurns(l2)
    IN  \A i, j \in 1..Len(a1) : \A x, y \in 1..Len(a2) :
            (i < j /\ a1[i].content = a2[x].content /\ a1[j].content = a2[y].content)
                => x < y

C34_Histories ==
    \A l \in Histories :
        /\ \A i, j \in 1..Len(l) :
                i < j =>
                    /\ l[i].timestamp <= l[j].timestamp
                    /\ l[i] # l[j]
                    /\ (IsAppended(l[i]) /\ IsAppended(l[j])) => l[i].content # l[j].content
        /\ \A l2 \in Histories : SameOrder(l, l2)

\* C34: under every interleaving of the save_message calls of concurrent
\* /stream requests on one session, the stored history (and every history a
\* call has read or built) holds each appended turn at most once, its
\* timestamps never decrease along the list, and the turns that two
\* histories share, at one moment or before and after a step, are in the
\* same order in both.
C34_TurnsOnceInOrder ==
    /\ []C34_Histories
    /\ [][\A k \in DOMAIN store \cap DOMAIN store' :
            SameOrder(store[k].messages, store'[k].messages)]_vars

\* three turns were saved on s1 by interleaved calls: the first was written,
\* the second was lost to the third, whose call had read the first
C34_Witness ==
    /\ ncalls >= 3
    /\ \A c \in Callers : Returned(c)
    /\ LET a == AppendedTurns(store["s1"].messages)
       IN  /\ Len(a) = 2
           /\ a[1].content = TurnText(1)
           /\ a[2].content = TurnText(3)
           /\ a[1].timestamp < a[2].timestamp

(***************************************************************************)
(* C35                                                                     *)
(***************************************************************************)
\* the step is a successful setex of the save_message of caller c
SaveWrites(c) ==
    /\ frame[c].op = "save"
    /\ frame[c].pc = "setex"
    /\ frame'[c].pc = "done"
    /\ frame'[c].status = 200

\* C35: the stored last_activity of a session never decreases from one
\* store state to the next, and is never smaller than created_at, under
\* every interleaving of save_message calls with a clock that does not go
\* back.
C35_LastActivityNeverDecreases ==
    /\ [](\A k \in DOMAIN store : store[k].last_activity >= store[k].created_at)
    /\ [][\A k \in DOMAIN store \cap DOMAIN store' :
            store'[k].last_activity >= store[k].last_activity]_vars

C35_Stored ==
    \A k \in DOMAIN store :
        LET l == store[k].messages
        IN  /\ store[k].last_activity >= store[k].created_at
            /\ l # <<>> => store[k].last_activity >= l[Len(l)].timestamp
            /\ store[k].last_activity <= clock

C35_Step ==
    \A k \in DOMAIN store \cap DOMAIN store' :
        IF \E c \in Callers : SaveWrites(c) /\ frame[c].session_id = k
        THEN \A c \in Callers :
                (SaveWrites(c) /\ frame[c].session_id = k) =>
                    /\ store'[k].last_activity = frame[c].session_data.last_activity
                    /\ store'[k].last_activity >= frame[c].seen.last_activity
                    /\ store'[k].created_at = frame[c].seen.created_at
                    /\ store[k] = frame[c].seen =>
                            store'[k].last_activity >= store[k].last_activity
        ELSE store'[k].last_activity = store[k].last_activity

\* C35, amended: the stored last_activity is never smaller than created_at
\* nor than the timestamp of the last stored turn, and never later than the
\* clock; only a write of save_message changes it, to the reading of the
\* clock that call made, which is not smaller than the last_activity the
\* call had read; so it does not decrease when nothing was written between
\* the call's read and its write.  When calls interleave it can decrease:
\* the write that comes last may carry the earlier reading.
C35_LastActivityFollowsTheWriter ==
    /\ []C35_Stored
    /\ [][C35_Step]_vars

\* two save_message calls on s1 were both written; the one written first
\* carried the later reading of the clock, so last_activity went back
C35_Witness ==
    /\ "s1" \in DOMAIN store
    /\ \E c, d \in Callers :
        /\ c # d
        /\ \A x \in {c, d} : /\ frame[x].op = "save" /\ frame[x].pc = "done"
                              /\ frame[x].status = 200 /\ frame[x].session_id = "s1"
        /\ store["s1"] = frame[d].session_data
        /\ frame[c].session_data.last_activity > store["s1"].last_activity

(***************************************************************************)
(* C36                                                                     *)
(***************************************************************************)
\* the step is made by the save_message of caller c
SaveSteps(c) == frame[c].op = "save" /\ frame'[c] # frame[c] /\ frame[c].pc # "done"

\* C36: a step of save_message on a session leaves every other session and
\* its time-to-live as they are, and changes nothing at all unless it is the
\* successful write; the write changes only the messages, last_activity and
\* time-to-live of its session: session_id and created_at are those of the
\* session read (the values create_session wrote, which the stored session
\* carries too), and every turn that remains is a turn that was read, with
\* its role, content and timestamp, in its place before the new turn.
C36_SaveChangesOnlyItsSession ==
    [][\A c \in Callers :
        SaveSteps(c) =>
            LET k == frame[c].session_id
            IN  /\ \A j \in DOMAIN store \ {k} :
                        j \in DOMAIN store' /\ store'[j] = store[j] /\ ttl'[j] = ttl[j]
                /\ DOMAIN store' \subseteq DOMAIN store \cup {k}
                /\ issued' = issued
                /\ ~ SaveWrites(c) => (store' = store /\ ttl' = ttl)
                /\ SaveWrites(c) =>
                        LET read == frame[c].seen
                            new == store'[k]
                            kept == Len(new.messages) - 1
                        IN  /\ new.session_id = k
                            /\ new.session_id = read.session_id
                            /\ new.created_at = read.created_at
                            /\ k \in DOMAIN store =>
                                    /\ new.session_id = store[k].session_id
                                    /\ new.created_at = store[k].created_at
                            /\ kept >= 0
                            /\ kept <= Len(read.messages)
                            /\ \A i \in 1..kept :
                                    new.messages[i] = read.messages[Len(read.messages) - kept + i]
                            /\ DOMAIN new = {"session_id", "created_at", "last_activity",
                                             "messages"}]_vars

\* a save_message has written s1 while the session s2 exists
C36_Witness ==
    /\ DOMAIN store = {"s1", "s2"}
    /\ \E c \in Callers :
        /\ frame[c].op = "save" /\ frame[c].pc = "done" /\ frame[c].status = 200
        /\ frame[c].session_id = "s1"
        /\ store["s1"] = frame[c].session_data
        /\ Len(store["s1"].messages) >= 2

(***************************************************************************)
(* C37                                                                     *)
(***************************************************************************)
IsStoreEntry(e) == e.kind \in {"write", "print"}

\* C37: a /stream request sent without a session_id makes no call to the
\* session store at any step, on the direct path, on the tool-call path and
\* when a gateway call fails: no step of it changes the sessions, their
\* content or their time-to-live, save_message is never entered, and
\* nothing is written or attempted.
C37_NoSessionNoStoreWrite ==
    /\ [](session_id = "none" =>
            /\ frame[Orch] = IdleFrame
            /\ \A i \in 1..Len(trace) : ~ IsStoreEntry(trace[i]))
    /\ [][session_id' = "none" =>
            /\ store' = store
            /\ ttl' = ttl
            /\ issued' = issued
            /\ frame' = frame]_vars

\* a request without a session took the tool-call path, streamed a fragment
\* and ended with end; the session s1 is as it was
C37_Witness ==
    /\ pc = "done"
    /\ status = 200
    /\ session_id = "none"
    /\ LastOfTrace = EndEvent
    /\ Len(ToolResultEvents) >= 1
    /\ \E i \in 1..Len(trace) : IsChunk(trace[i])
    /\ "s1" \in DOMAIN store

(***************************************************************************)
(* C38                                                                     *)
(***************************************************************************)
\* the request names a session the store does not hold
NamesAbsentSession == HasSession(session_id) /\ session_id \notin DOMAIN store

C38_Absent ==
    (NamesAbsentSession /\ pc # "idle") =>
        /\ Strip(prompt) # <<>> => status = 200
        /\ gw_messages # <<>> =>
                gw_messages[1] = <<ListMessage("system", SYSTEM_PROMPT),
                                   ListMessage("user", prompt)>>
        /\ frame[Orch].pc \notin {"build", "setex"}
        /\ frame[Orch].status # 200
        /\ \A i \in 1..Len(trace) : trace[i].kind # "write"
        /\ (pc = "done" /\ status = 200) =>
                IF InTrace(GatewayRaise)
                THEN LastOfTrace = ErrorEvent(UpstreamError)
                ELSE LastOfTrace = EndEvent

\* C38: a /stream request whose session_id names no stored session is not
\* rejected: it is answered 200, the first completion gets the system
\* prompt and the prompt alone (an empty history), each save_message
\* returns after its read without building or writing anything, the
\* response ends with end (with error only after a failed gateway call),
\* as for a request without a session; no step of it changes the store, so
\* no session is created under the id.
C38_AbsentSessionProceeds ==
    /\ []C38_Absent
    /\ [][(HasSession(session_id') /\ session_id' \notin DOMAIN store) =>
            /\ store' = store
            /\ ttl' = ttl
            /\ issued' = issued]_vars

\* a request naming s2, which was never created, took the direct path with
\* an answer, both save_message calls returned on the missing session, and
\* the response ended with end; s2 is still absent
C38_Witness ==
    /\ pc = "done"
    /\ status = 200
    /\ session_id = "s2"
    /\ "s2" \notin DOMAIN store
    /\ LastOfTrace = EndEvent
    /\ assistant_message.tool_calls = <<>>
    /\ Truthy(assistant_message.content)
    /\ NoStoreFailure
    /\ frame[Orch].op = "save" /\ frame[Orch].role = "assistant"
    /\ frame[Orch].pc = "done" /\ frame[Orch].status = 0
====
